---- MODULE Spec2Model ----
(***************************************************************************)
(* Job pipeline of the grid inference worker (inference_worker/worker.py,  *)
(* inference_worker/api_client.py): the claim / infer / submit cycle of    *)
(* TextWorker.process_once inside the loop of TextWorker.run.              *)
(*                                                                         *)
(* Time is counted in whole seconds.  A sleep of n seconds advances the    *)
(* clock by n; a backend request advances it by its latency.               *)
(*                                                                         *)
(* One action is one step of the worker task between two awaits that       *)
(* matter: the pop, one backend POST with the backoff that follows it, the *)
(* submission with its classification, and the cooldown.  The sleeps of    *)
(* run (2 s after an idle cycle, 5 s after an exception) change no state.  *)
(*                                                                         *)
(* Beside the pipeline (Spec, FairSpec) the module holds smaller           *)
(* components, each with its own next-state relation over its own          *)
(* variables: one call of APIClient.submit_result step by step             *)
(* (SubmitSpec), the worker task of the web app under start, stop and      *)
(* restart requests (LifeSpec, web/app.py and web/routes.py), one scan of  *)
(* the known engines (ScanSpec) and the probes of one URL (Port8000Spec,   *)
(* CheckUrlSpec), the last three from detect_backends.py; the payload      *)
(* transformation (TransformSpec), the WorkerStats counters and rolling    *)
(* log (StatsSpec), APIClient.find_user (FindUserSpec), the probe of one   *)
(* engine (ProbeSpec) and the model queries list_models_for_backend and    *)
(* get_model_context_length (QuerySpec), both from detect_backends.py.     *)
(***************************************************************************)
EXTENDS Integers, Sequences, FiniteSets, TLC

\* ------------------------------------------------------------------ bounds

\* Jobs the queue hands out in one run of the model.
MaxJobs == 5

\* Cap of the pop-failure counter in the model (the code's counter is unbounded).
MaxPopFailures == 6

\* Request handlers of the web app that can be in flight at once.
MaxHandlers == 2

\* Pipeline tasks created in one run of the model.
MaxTasks == 3

\* Engines one scan finds running (the scan probes all 8 known engines).
MaxFound == 3

\* record_job and record_failure calls made on one WorkerStats instance.
MaxCalls == 3

\* Calls of find_user in one run of the model.
MaxLookups == 3

\* --------------------------------------------------------- program constants

MAX_RETRIES == 5
FAILURE_THRESHOLD == 5
COOLDOWN_SECONDS == 30
DEFAULT_MAX_LENGTH == 80
STALE_BASE_SECONDS == 10
SUBMIT_ATTEMPTS == 3

\* ------------------------------------------------------------------ inputs

NoJob == 0

\* Job payloads the queue may send: max_length present (a number) or absent.
\* max_length = 2 gives a stale budget of 11 s, which four 3 s backoffs exceed.
Payloads ==
    {[prompt |-> "hello"]}
        \cup {[prompt |-> "hello", max_length |-> m] : m \in {2, 100}}

\* What one POST to the backend can end in: an HTTP response (exc = "") or an
\* exception raised by the HTTP client.  parse tells what resp.json() gives for
\* a 200: a first choice with message content, no usable choice, or a body that
\* is not JSON (resp.json() raises).
BackendReplies ==
    {[exc |-> "", status |-> 200, parse |-> "content", content |-> c] :
        c \in {"Hi there", ""}}
        \cup {[exc |-> "", status |-> 200, parse |-> p, content |-> ""] :
                p \in {"no_choices", "malformed"}}
        \cup {[exc |-> "", status |-> s, parse |-> "none", content |-> ""] :
                s \in {404, 422, 429, 500, 503}}
        \cup {[exc |-> e, status |-> 0, parse |-> "none", content |-> ""] :
                e \in {"ConnectError", "ReadTimeout", "WriteTimeout"}}

\* Seconds one backend request may take (the client's timeout is 120 s).
BackendLatencies == {0, 31}

\* What one POST to the queue's submit endpoint can end in: an HTTP status, a
\* connection or timeout failure, or any other exception of the client.
\*   success statuses other than 200
Other2xx == {"201", "204"}
\*   statuses for which raise_for_status raises httpx.HTTPStatusError
ErrorStatuses == {"400", "401", "500", "503"}
\*   the exceptions submit_result catches
TransientErrors == {"ConnectError", "ReadTimeout", "WriteTimeout"}

SubmitAnswers ==
    {"200"} \cup Other2xx \cup ErrorStatuses \cup TransientErrors \cup {"OtherError"}

\* Reward the queue reports in a 200 answer.
Rewards == {0, 10}

Min(a, b) == IF a < b THEN a ELSE b

\* ------------------------------------------------------------------- state

VARIABLES
    pc,                     \* position of the worker task in run / process_once
    job,                    \* job_id of the job held by the cycle, NoJob if none
    max_tokens,             \* int(payload.get("max_length", 80)) of the held job
    text,                   \* generated text of the held job
    faulted,                \* outcome marked faulted
    retries,                \* retries counter of the inference loop
    elapsed,                \* time.time() - start_time
    requests,               \* backend POSTs dispatched for the held job
    lastStatus,             \* status of the latest backend response, 0 if none
    submit_payload,         \* <<payload>> given to submit_result in this cycle, else <<>>
    submitOutcome,          \* how submit_result ended in this cycle
    recordedTokens,         \* the tokens argument of the record_job call of this
                            \* cycle, NoTokens if there was none
    consecutive_failures,   \* TextWorker.consecutive_failures
    pop_failures,           \* TextWorker._pop_failures
    stats,                  \* WorkerStats: jobs_completed, jobs_failed, last_job_kudos
    lastSleep,              \* seconds slept inside process_once by the latest step
    claimCount,             \* jobs returned by pop_job so far
    submitCount,            \* calls of submit_result so far
    loopError,              \* exception the latest cycle left process_once with
                            \* (caught and logged by run), "" if it returned
    only500,                \* history: every backend reply for the held job was a 500
    failedRun,              \* history: failed job cycles since the last successful
                            \* job or cooldown sleep
    connRun,                \* history: pops that ended in ConnectError since the
                            \* latest pop that ended any other way
    popError,               \* history: the exception the latest call of pop_job
                            \* raised, "" if it returned
    lastParse,              \* history: what resp.json() gave for the latest
                            \* backend reply to the job held and not yet
                            \* submitted
    \* one call of APIClient.submit_result, step by step
    attempt,                \* the loop variable of "for attempt in range(3)"
    sAnswers,               \* what each POST of the call ended in, in order
    sSleeps,                \* the backoff sleeps the call has taken, in order
    sEnd,                   \* "running", or how the call ended: "return" (the
                            \* parsed body), "raise", "none" (fell off the loop)
    \* the worker task of the web app and the handlers that start and stop it
    task,                   \* worker_state["task"]: "none", or where that task is:
                            \* "created", "run", "close_backend", "close_api", "done"
    taskId,                 \* number of tasks created so far (the current task's id)
    at,                     \* the await of worker.run() the task is suspended in
    cancelReq,              \* task.cancel() was called and not yet delivered
    running,                \* worker_state["running"]
    backendOpen,            \* worker.backend (httpx.AsyncClient) is open
    apiOpen,                \* worker.api.client (httpx.AsyncClient) is open
    hpc,                    \* per handler: "idle", or suspended in stop_worker's
                            \* "await task": "stop_wait", "restart_wait"
    awaited,                \* per handler: id of the task it awaits
    lastStop,               \* history: what the latest return of stop_worker found
    \* one call of detect_backends
    fut,                    \* per known engine: its future is "pending", or its
                            \* probe returned "none" or "found" a backend
    backends,               \* result.backends
    seen_ports,             \* seen_ports
    scanDone,               \* detect_backends has returned
    \* the probes of one URL
    p8,                     \* one call of _identify_port_8000: the replies it
                            \* got (in) and what it returned (out)
    cu,                     \* one call of check_backend_url: the replies it got
                            \* (in) and the info it returned (out)
    \* two calls of _transform_payload on one job payload
    tf,                     \* the payload as the caller gave it (given) and as it
                            \* is now (payload), the worker as each call found
                            \* it (before) and as it is now (self), the
                            \* requests returned so far (out)
    \* two WorkerStats instances given the same calls at different times
    calls,                  \* record_job and record_failure calls made so far
    clock,                  \* time.time() at the latest call on the first instance
    ws,                     \* the first WorkerStats instance
    history,                \* history: every (kudos, time, tokens) record_job
                            \* was given on the first instance
    rclock,                 \* time.time() at the latest call on the second instance
    replay,                 \* the second WorkerStats instance
    rates,                  \* the latest read of kudos_per_hour and jobs_per_hour
                            \* on the first instance
    lastCall,               \* the method the latest recording call invoked
    \* calls of APIClient.find_user
    fu,                     \* per call made so far: the answer the GET got and
                            \* how the call ended
    \* one call of _probe_single_engine
    pr,                     \* the engine definition probed (engine), the reply
                            \* to each of its probes (in) and what the call
                            \* returned (out)
    \* one call of list_models_for_backend or get_model_context_length
    mq                      \* the function called (fn), its arguments, the
                            \* reply to its request and how the call ended (out)

\* The locals of process_once.
cycleVars == <<job, max_tokens, text, faulted, retries, elapsed, requests,
               lastStatus, submit_payload, submitOutcome, recordedTokens, only500>>

\* The worker's fields and the counts of calls made.
workerVars == <<consecutive_failures, pop_failures, stats, claimCount, submitCount>>

\* The state of the job pipeline.
pipelineVars == <<pc, cycleVars, workerVars, lastSleep, loopError, failedRun, connRun,
                  popError, lastParse>>

\* The state of one submit_result call.
submitVars == <<attempt, sAnswers, sSleeps, sEnd>>

\* The state of the web app's worker task and request handlers.
lifeVars == <<task, taskId, at, cancelReq, running, backendOpen, apiOpen, hpc,
              awaited, lastStop>>

\* The state of one scan.
scanVars == <<fut, backends, seen_ports, scanDone>>

\* The two WorkerStats instances and their clocks.
statsVars == <<calls, clock, ws, history, rclock, replay, rates, lastCall>>

vars == <<pipelineVars, submitVars, lifeVars, scanVars, p8, cu, tf, statsVars, fu, pr, mq>>

\* What the steps of each component leave alone.
outsidePipeline == <<submitVars, lifeVars, scanVars, p8, cu, tf, statsVars, fu, pr, mq>>
outsideSubmit == <<pipelineVars, lifeVars, scanVars, p8, cu, tf, statsVars, fu, pr, mq>>
outsideLife == <<pipelineVars, submitVars, scanVars, p8, cu, tf, statsVars, fu, pr, mq>>
outsideScan == <<pipelineVars, submitVars, lifeVars, p8, cu, tf, statsVars, fu, pr, mq>>
outsidePort8000 == <<pipelineVars, submitVars, lifeVars, scanVars, cu, tf, statsVars, fu, pr, mq>>
outsideCheckUrl == <<pipelineVars, submitVars, lifeVars, scanVars, p8, tf, statsVars, fu, pr, mq>>
outsideTransform == <<pipelineVars, submitVars, lifeVars, scanVars, p8, cu, statsVars, fu, pr, mq>>
outsideStats == <<pipelineVars, submitVars, lifeVars, scanVars, p8, cu, tf, fu, pr, mq>>
outsideFindUser == <<pipelineVars, submitVars, lifeVars, scanVars, p8, cu, tf, statsVars, pr, mq>>
outsideProbe == <<pipelineVars, submitVars, lifeVars, scanVars, p8, cu, tf, statsVars, fu, mq>>
outsideQuery == <<pipelineVars, submitVars, lifeVars, scanVars, p8, cu, tf, statsVars, fu, pr>>

\* ------------------------------------------------------------ pure helpers

\* TextWorker._stale_timeout is (max_tokens / 2) + 10 seconds, a float.  The
\* model keeps it exact for odd max_tokens by carrying twice its value.
stale_timeout_x2(max_tok) == max_tok + 2 * STALE_BASE_SECONDS

\* Mutant of IsStale: the budget is taken as max_tokens + 10, not halved.
IsStale_NotHalved(el, max_tok) == el > max_tok + STALE_BASE_SECONDS

\* Mutant of IsStale: the loop never finds the job stale.
IsStale_Never(el, max_tok) == FALSE

\* The stale test of the retry loop: elapsed > stale_timeout.
IsStale(el, max_tok) == 2 * el > stale_timeout_x2(max_tok)

\* int(payload.get("max_length", 80))
MaxTokensOf(payload) ==
    IF "max_length" \in DOMAIN payload THEN payload.max_length ELSE DEFAULT_MAX_LENGTH

\* What one pass through the body of the retry loop leaves behind: the text,
\* faulted and retries, the seconds slept, and where control goes: "break"
\* leaves the loop, "continue" goes back to its top, "raise" leaves
\* process_once with an exception.
\*   a transient outcome: sleep, count the attempt, go round again
Retry(r, t, f, secs) ==
    [text |-> t, faulted |-> f, retries |-> r + 1, sleep |-> secs, next |-> "continue"]
\*   mutant of Fault: the body of the error response is kept as the text
Fault_KeepsErrorBody(r, t) ==
    [text |-> "Backend error", faulted |-> TRUE, retries |-> r, sleep |-> 0,
     next |-> "break"]
\*   an unrecoverable status: mark the outcome faulted and break
Fault(r, t) ==
    [text |-> t, faulted |-> TRUE, retries |-> r, sleep |-> 0, next |-> "break"]
\*   an exception no except clause of the loop catches
Uncaught(r, t, f) ==
    [text |-> t, faulted |-> f, retries |-> r, sleep |-> 0, next |-> "raise"]
\*   a 200: the content of the first choice when there is one, then break
Ok200(reply, r, t, f) ==
    IF reply.parse = "malformed"
    THEN Uncaught(r, t, f)
    ELSE [text |-> IF reply.parse = "content" THEN reply.content ELSE t,
          faulted |-> f, retries |-> r, sleep |-> 0, next |-> "break"]

\* Mutant of Attempt: a 5xx response is taken for unrecoverable.
Attempt_ServerErrorIsFatal(reply, r, t, f) ==
    CASE reply.exc \in {"ConnectError", "ReadTimeout"} -> Retry(r, t, f, 3)
      [] reply.exc \notin {"", "ConnectError", "ReadTimeout"} -> Uncaught(r, t, f)
      [] reply.exc = "" /\ reply.status = 200 -> Ok200(reply, r, t, f)
      [] reply.exc = "" /\ reply.status = 429 -> Retry(r, t, f, 5)
      [] OTHER -> Fault(r, t)

\* Mutant of Attempt: the 429 branch sleeps and goes round again without
\* counting the attempt.
Attempt_RateLimitNotCounted(reply, r, t, f) ==
    CASE reply.exc \in {"ConnectError", "ReadTimeout"} -> Retry(r, t, f, 3)
      [] reply.exc \notin {"", "ConnectError", "ReadTimeout"} -> Uncaught(r, t, f)
      [] reply.exc = "" /\ reply.status = 200 -> Ok200(reply, r, t, f)
      [] reply.exc = "" /\ reply.status = 422 -> Fault(r, t)
      [] reply.exc = "" /\ reply.status = 429 ->
            [Retry(r, t, f, 5) EXCEPT !.retries = r]
      [] reply.exc = "" /\ reply.status >= 500 -> Retry(r, t, f, 3)
      [] OTHER -> Fault(r, t)

\* Mutant of Attempt: a status the loop does not know is retried like a 5xx.
Attempt_UnknownStatusRetried(reply, r, t, f) ==
    CASE reply.exc \in {"ConnectError", "ReadTimeout"} -> Retry(r, t, f, 3)
      [] reply.exc \notin {"", "ConnectError", "ReadTimeout"} -> Uncaught(r, t, f)
      [] reply.exc = "" /\ reply.status = 200 -> Ok200(reply, r, t, f)
      [] reply.exc = "" /\ reply.status = 422 -> Fault(r, t)
      [] reply.exc = "" /\ reply.status = 429 -> Retry(r, t, f, 5)
      [] OTHER -> Retry(r, t, f, 3)

\* One pass through the body of the retry loop after the POST ended in reply
\* (an exception or a response), in the order of the code's branches.
Attempt(reply, r, t, f) ==
    CASE reply.exc \in {"ConnectError", "ReadTimeout"} -> Retry(r, t, f, 3)
      [] reply.exc \notin {"", "ConnectError", "ReadTimeout"} -> Uncaught(r, t, f)
      [] reply.exc = "" /\ reply.status = 200 -> Ok200(reply, r, t, f)
      [] reply.exc = "" /\ reply.status = 422 -> Fault(r, t)
      [] reply.exc = "" /\ reply.status = 429 -> Retry(r, t, f, 5)
      [] reply.exc = "" /\ reply.status >= 500 -> Retry(r, t, f, 3)
      [] OTHER -> Fault(r, t)

\* Mutant of SubmitPayload: the faulted payload is built without the job's id.
SubmitPayload_FaultedLosesId(job_id, t, f) ==
    IF f
    THEN [id |-> NoJob, generation |-> t, seed |-> 0, state |-> "faulted"]
    ELSE [id |-> job_id, generation |-> t, seed |-> 0]

\* Mutant of SubmitPayload: every payload carries a state field.
SubmitPayload_StateAlways(job_id, t, f) ==
    [id |-> job_id, generation |-> t, seed |-> 0,
     state |-> IF f THEN "faulted" ELSE "ok"]

\* The submit payload process_once builds.
SubmitPayload(job_id, t, f) ==
    IF f
    THEN [id |-> job_id, generation |-> t, seed |-> 0, state |-> "faulted"]
    ELSE [id |-> job_id, generation |-> t, seed |-> 0]

\* Mutant of SubmitStep: an HTTP error status is retried like a timeout.
SubmitStep_StatusErrorRetried(answer, n) ==
    CASE answer = "200" -> [next |-> "return", sleep |-> 0]
      [] answer \in Other2xx -> [next |-> "continue", sleep |-> 0]
      [] answer \in TransientErrors \cup ErrorStatuses ->
            IF n < 2 THEN [next |-> "continue", sleep |-> 3 * (n + 1)]
                     ELSE [next |-> "raise", sleep |-> 0]
      [] OTHER -> [next |-> "raise", sleep |-> 0]

\* The body of the for loop of submit_result in attempt n (0, 1, 2) when its
\* POST ended in answer: where control goes ("return" the parsed body,
\* "continue" with the next attempt, "raise" to the caller) and the seconds
\* slept first.  For a status other than 200 the code logs and calls
\* raise_for_status, which raises for an error status and passes a 2xx: the
\* try block ends and the loop goes on.
SubmitStep(answer, n) ==
    CASE answer = "200" -> [next |-> "return", sleep |-> 0]
      [] answer \in Other2xx -> [next |-> "continue", sleep |-> 0]
      [] answer \in TransientErrors ->
            IF n < 2 THEN [next |-> "continue", sleep |-> 3 * (n + 1)]
                     ELSE [next |-> "raise", sleep |-> 0]
      [] OTHER -> [next |-> "raise", sleep |-> 0]

\* APIClient.submit_result from attempt number n on, answers[i] being
\* what the i-th POST ends in: how the call ends ("return" the parsed body,
\* "raise", or "none" when the loop runs out and the function falls off its
\* end), the POSTs made and the backoff sleeps taken.
RECURSIVE submit_from(_, _)
submit_from(answers, n) ==
    IF n >= SUBMIT_ATTEMPTS
    THEN [end |-> "none", posts |-> 0, sleeps |-> <<>>]
    ELSE LET step == SubmitStep(answers[n + 1], n)
             rest == submit_from(answers, n + 1)
         IN  IF step.next = "continue"
             THEN [rest EXCEPT !.posts = @ + 1,
                               !.sleeps = (IF step.sleep > 0 THEN <<step.sleep>>
                                                             ELSE <<>>) \o @]
             ELSE [end |-> step.next, posts |-> 1, sleeps |-> <<>>]

submit_result(answers) == submit_from(answers, 0)

\* Every way one call of submit_result can go.
SubmitResults == {submit_result(a) : a \in [1..SUBMIT_ATTEMPTS -> SubmitAnswers]}

\* WorkerStats.record_job: the job counter and the last-job marker.  (The
\* rolling log and the token and kudos totals are not part of this state.)
record_job(st, kudos, tokens) ==
    [st EXCEPT !.jobs_completed = @ + 1,
               !.last_job_kudos = kudos]

\* WorkerStats.record_failure
record_failure(st) == [st EXCEPT !.jobs_failed = @ + 1]

\* Mutant of Classify: a submission that raised is logged and not counted.
Classify_RaiseNotCounted(cf, st, end, f, t, reward, tokens) ==
    IF end = "raise"
    THEN [consecutive_failures |-> cf + 1, stats |-> st]
    ELSE LET kudos == IF end = "return" THEN reward ELSE 0
         IN  IF f \/ t = ""
             THEN [consecutive_failures |-> cf + 1, stats |-> record_failure(st)]
             ELSE [consecutive_failures |-> 0, stats |-> record_job(st, kudos, tokens)]

\* Mutant of Classify: an empty text of an unfaulted job counts as a success.
Classify_EmptyTextSucceeds(cf, st, end, f, t, reward, tokens) ==
    IF end = "raise" \/ f
    THEN [consecutive_failures |-> cf + 1,
          stats |-> [st EXCEPT !.jobs_failed = @ + 1]]
    ELSE [consecutive_failures |-> 0,
          stats |-> [st EXCEPT !.jobs_completed = @ + 1,
                               !.last_job_kudos = IF end = "return" THEN reward ELSE 0]]

\* The try/except around submit_result in process_once: the new
\* consecutive-failure counter and statistics, given how submit_result ended
\* and the reward it reported.
Classify(cf, st, end, f, t, reward, tokens) ==
    IF end = "raise"
    THEN [consecutive_failures |-> cf + 1, stats |-> record_failure(st)]
    ELSE LET kudos == IF end = "return" THEN reward ELSE 0
         IN  IF f \/ t = ""
             THEN [consecutive_failures |-> cf + 1, stats |-> record_failure(st)]
             ELSE [consecutive_failures |-> 0, stats |-> record_job(st, kudos, tokens)]

\* No record_job call in the cycle.
NoTokens == -1

\* The tokens argument of self.stats.record_job(kudos, max_tokens) when the
\* try/except around submit_result comes to that call.
RecordedTokens(end, f, t, tokens) ==
    IF end # "raise" /\ ~f /\ t # "" THEN tokens ELSE NoTokens

\* The number of tokens of a text the backend generated.
GeneratedTokens(t) == IF t = "Hi there" THEN 2 ELSE 0

\* Mutant of NeedsCooldown: the threshold must be exceeded, not reached.
NeedsCooldown_Exceeds(cf) == cf > FAILURE_THRESHOLD

\* The cooldown test at the end of process_once.
NeedsCooldown(cf) == cf >= FAILURE_THRESHOLD

\* Mutant of PopBackoff: the backoff is not capped.
PopBackoff_Uncapped(k) == 2 * k

\* The backoff of a pop that ended in ConnectError, k being the new counter.
PopBackoff(k) == Min(10, 2 * k)

\* Exceptions that do not derive from Exception (asyncio.CancelledError is a
\* BaseException in the Python versions the code runs on).
BaseExceptions == {"CancelledError", "KeyboardInterrupt", "SystemExit"}

\* Mutant of RunCatches: run catches only the HTTP client's errors.
RunCatches_OnlyHttpErrors(exc) == exc \in {"ConnectError", "ReadTimeout", "WriteTimeout"}

\* The except clause of the loop in run: "except Exception".
RunCatches(exc) == exc \notin BaseExceptions

\* ------------------------------------------------------------------- Init

PipelineInit ==
    /\ pc = "loop"
    /\ job = NoJob
    /\ max_tokens = 0
    /\ text = ""
    /\ faulted = FALSE
    /\ retries = 0
    /\ elapsed = 0
    /\ requests = 0
    /\ lastStatus = 0
    /\ submit_payload = <<>>
    /\ submitOutcome = "unset"
    /\ recordedTokens = NoTokens
    /\ consecutive_failures = 0
    /\ pop_failures = 0
    /\ stats = [jobs_completed |-> 0, jobs_failed |-> 0, last_job_kudos |-> 0]
    /\ lastSleep = 0
    /\ claimCount = 0
    /\ submitCount = 0
    /\ loopError = ""
    /\ only500 = TRUE
    /\ failedRun = 0
    /\ connRun = 0
    /\ popError = ""
    /\ lastParse = "none"

\* The locals of process_once are gone once it returns or raises.
DropJob ==
    /\ job' = NoJob
    /\ max_tokens' = 0
    /\ text' = ""
    /\ faulted' = FALSE
    /\ retries' = 0
    /\ elapsed' = 0
    /\ requests' = 0
    /\ lastStatus' = 0
    /\ submit_payload' = <<>>
    /\ submitOutcome' = "unset"
    /\ recordedTokens' = NoTokens
    /\ only500' = TRUE

\* ---------------------------------------------------------------- actions

\* pop_job returns a job: the counter is reset, the payload transformed, the
\* stale budget computed and the retry loop entered.
PopJob ==
    /\ pc = "loop"
    /\ popError' = ""
    /\ lastParse' = "none"
    /\ claimCount < MaxJobs
    /\ \E payload \in Payloads :
          max_tokens' = MaxTokensOf(payload)
    /\ job' = claimCount + 1
    /\ claimCount' = claimCount + 1
    /\ pop_failures' = 0
    /\ text' = ""
    /\ faulted' = FALSE
    /\ retries' = 0
    /\ elapsed' = 0
    /\ requests' = 0
    /\ lastSleep' = 0
    /\ loopError' = ""
    /\ connRun' = 0
    /\ pc' = "infer"
    /\ UNCHANGED <<lastStatus, submit_payload, submitOutcome, recordedTokens,
                   only500, consecutive_failures, stats, submitCount, failedRun>>
    /\ UNCHANGED outsidePipeline

\* pop_job returns None (no id in the body): _log_waiting, return False, and
\* run sleeps 2 s.
PopNone ==
    /\ pc = "loop"
    /\ popError' = ""
    /\ lastParse' = "none"
    /\ pop_failures' = 0
    /\ lastSleep' = 0
    /\ loopError' = ""
    /\ connRun' = 0
    /\ UNCHANGED <<pc, cycleVars, consecutive_failures, stats, claimCount,
                   submitCount, failedRun>>
    /\ UNCHANGED outsidePipeline

\* Mutant of PopConnectError: a failed claim also counts as a failed job.
PopConnectError_CountsFailure ==
    /\ pc = "loop"
    /\ popError' = "ConnectError"
    /\ lastParse' = "none"
    /\ pop_failures < MaxPopFailures
    /\ pop_failures' = pop_failures + 1
    /\ consecutive_failures' = consecutive_failures + 1
    /\ lastSleep' = PopBackoff(pop_failures + 1)
    /\ loopError' = ""
    /\ connRun' = connRun + 1
    /\ UNCHANGED <<pc, cycleVars, stats, claimCount, submitCount, failedRun>>
    /\ UNCHANGED outsidePipeline

\* pop_job raises httpx.ConnectError.
PopConnectError ==
    /\ pc = "loop"
    /\ popError' = "ConnectError"
    /\ lastParse' = "none"
    /\ pop_failures < MaxPopFailures
    /\ pop_failures' = pop_failures + 1
    /\ lastSleep' = PopBackoff(pop_failures + 1)
    /\ loopError' = ""
    /\ connRun' = connRun + 1
    /\ UNCHANGED <<pc, cycleVars, consecutive_failures, stats, claimCount,
                   submitCount, failedRun>>
    /\ UNCHANGED outsidePipeline

\* Mutant of PopReadTimeout: a read timeout counts as a pop failure.
PopReadTimeout_CountsFailure ==
    /\ pc = "loop"
    /\ popError' = "ReadTimeout"
    /\ lastParse' = "none"
    /\ pop_failures < MaxPopFailures
    /\ pop_failures' = pop_failures + 1
    /\ lastSleep' = 2
    /\ loopError' = ""
    /\ connRun' = 0
    /\ UNCHANGED <<pc, cycleVars, consecutive_failures, stats, claimCount,
                   submitCount, failedRun>>
    /\ UNCHANGED outsidePipeline

\* pop_job raises httpx.ReadTimeout.
PopReadTimeout ==
    /\ pc = "loop"
    /\ popError' = "ReadTimeout"
    /\ lastParse' = "none"
    /\ lastSleep' = 2
    /\ loopError' = ""
    /\ connRun' = 0
    /\ UNCHANGED <<pc, cycleVars, workerVars, failedRun>>
    /\ UNCHANGED outsidePipeline

\* Mutant of PopOtherError: a failed claim is recorded as a failed job.
PopOtherError_RecordsFailure ==
    /\ pc = "loop"
    /\ popError' = "OtherError"
    /\ lastParse' = "none"
    /\ pop_failures < MaxPopFailures
    /\ pop_failures' = pop_failures + 1
    /\ stats' = record_failure(stats)
    /\ lastSleep' = 5
    /\ loopError' = ""
    /\ connRun' = 0
    /\ UNCHANGED <<pc, cycleVars, consecutive_failures, claimCount,
                   submitCount, failedRun>>
    /\ UNCHANGED outsidePipeline

\* pop_job raises anything else (an HTTP error status among them).
PopOtherError ==
    /\ pc = "loop"
    /\ popError' = "OtherError"
    /\ lastParse' = "none"
    /\ pop_failures < MaxPopFailures
    /\ pop_failures' = pop_failures + 1
    /\ lastSleep' = 5
    /\ loopError' = ""
    /\ connRun' = 0
    /\ UNCHANGED <<pc, cycleVars, consecutive_failures, stats, claimCount,
                   submitCount, failedRun>>
    /\ UNCHANGED outsidePipeline

\* Top of the retry loop with the job stale: break.
InferStale ==
    /\ pc = "infer"
    /\ retries < MAX_RETRIES
    /\ IsStale(elapsed, max_tokens)
    /\ pc' = "submit"
    /\ lastSleep' = 0
    /\ UNCHANGED <<cycleVars, workerVars, loopError, failedRun, connRun,
                   popError, lastParse>>
    /\ UNCHANGED outsidePipeline

\* The loop condition retries < 5 fails.
InferExhausted ==
    /\ pc = "infer"
    /\ ~(retries < MAX_RETRIES)
    /\ pc' = "submit"
    /\ lastSleep' = 0
    /\ UNCHANGED <<cycleVars, workerVars, loopError, failedRun, connRun,
                   popError, lastParse>>
    /\ UNCHANGED outsidePipeline

\* One backend POST and what the loop body does with its end.  An exception
\* the loop does not catch leaves process_once; run logs it, sleeps 5 s and
\* goes round again when its except clause catches it, and ends otherwise.
InferPost ==
    /\ pc = "infer"
    /\ retries < MAX_RETRIES
    /\ ~IsStale(elapsed, max_tokens)
    /\ \E reply \in BackendReplies, latency \in BackendLatencies :
          LET a == Attempt(reply, retries, text, faulted)
          IN  IF a.next = "raise"
              THEN LET exc == IF reply.exc # "" THEN reply.exc
                                                   ELSE "JSONDecodeError"
                   IN  /\ DropJob
                       /\ pc' = IF RunCatches(exc) THEN "loop" ELSE "terminated"
                       /\ lastSleep' = 0
                       /\ loopError' = exc
                       /\ lastParse' = reply.parse
              ELSE /\ text' = a.text
                   /\ faulted' = a.faulted
                   /\ retries' = a.retries
                   /\ elapsed' = elapsed + latency + a.sleep
                   /\ requests' = requests + 1
                   /\ lastStatus' = reply.status
                   /\ only500' = (only500 /\ reply.exc = "" /\ reply.status = 500)
                   /\ lastSleep' = a.sleep
                   /\ pc' = IF a.next = "break" THEN "submit" ELSE "infer"
                   /\ UNCHANGED <<job, max_tokens, submit_payload, submitOutcome,
                                  recordedTokens, loopError>>
                   /\ lastParse' = reply.parse
    /\ UNCHANGED <<workerVars, failedRun, connRun, popError>>
    /\ UNCHANGED outsidePipeline

\* The submit payload is built, submit_result called and its end classified.
SubmitJob ==
    /\ pc = "submit"
    /\ \E res \in SubmitResults, reward \in Rewards :
          LET c == Classify(consecutive_failures, stats, res.end, faulted, text,
                            reward, max_tokens)
          IN  /\ submitOutcome' = res.end
              /\ consecutive_failures' = c.consecutive_failures
              /\ stats' = c.stats
              /\ recordedTokens' = RecordedTokens(res.end, faulted, text, max_tokens)
              /\ failedRun' = IF faulted \/ text = "" \/ res.end = "raise"
                               THEN failedRun + 1 ELSE 0
    /\ submit_payload' = <<SubmitPayload(job, text, faulted)>>
    /\ submitCount' = submitCount + 1
    /\ lastSleep' = 0
    /\ pc' = "cooldown"
    /\ UNCHANGED <<job, max_tokens, text, faulted, retries, elapsed, requests,
                   lastStatus, only500, pop_failures, claimCount, loopError,
                   connRun, popError>>
    /\ lastParse' = "none"
    /\ UNCHANGED outsidePipeline

\* The end of process_once: the cooldown when the counter reached the
\* threshold, then return True.
FinishCycle ==
    /\ pc = "cooldown"
    /\ IF NeedsCooldown(consecutive_failures)
       THEN /\ lastSleep' = COOLDOWN_SECONDS
            /\ consecutive_failures' = 0
            /\ failedRun' = 0
       ELSE /\ lastSleep' = 0
            /\ UNCHANGED <<consecutive_failures, failedRun>>
    /\ DropJob
    /\ pc' = "loop"
    /\ UNCHANGED <<pop_failures, stats, claimCount, submitCount, loopError,
                   connRun, popError, lastParse>>
    /\ UNCHANGED outsidePipeline

\* -------------------------------------------- submit_result, step by step

SubmitInit ==
    /\ attempt = 0
    /\ sAnswers = <<>>
    /\ sSleeps = <<>>
    /\ sEnd = "running"

\* One pass through the for loop: the POST, and what the loop body does with
\* its end (the backoff sleep included).
SubmitPost ==
    /\ sEnd = "running"
    /\ attempt < SUBMIT_ATTEMPTS
    /\ \E answer \in SubmitAnswers :
          LET step == SubmitStep(answer, attempt)
          IN  /\ sAnswers' = Append(sAnswers, answer)
              /\ sSleeps' = IF step.sleep > 0 THEN Append(sSleeps, step.sleep)
                                              ELSE sSleeps
              /\ IF step.next = "continue"
                 THEN /\ attempt' = attempt + 1
                      /\ sEnd' = "running"
                 ELSE /\ attempt' = attempt
                      /\ sEnd' = step.next
    /\ UNCHANGED outsideSubmit

\* range(3) is used up: the function falls off its end and returns None.
SubmitFallsOff ==
    /\ sEnd = "running"
    /\ attempt >= SUBMIT_ATTEMPTS
    /\ sEnd' = "none"
    /\ UNCHANGED <<attempt, sAnswers, sSleeps>>
    /\ UNCHANGED outsideSubmit

SubmitNext ==
    \/ SubmitPost
    \/ SubmitFallsOff

\* ------------------------------------ the worker task: start, stop, restart

Handlers == 1..MaxHandlers

NoStop == [returned |-> FALSE]

\* The awaits of worker.run() at which the task can be suspended, and the
\* awaits that can come next.
NextAwait(a) ==
    CASE a = "claim" -> {"claim_backoff", "idle_sleep", "inference"}
      [] a = "claim_backoff" -> {"idle_sleep"}
      [] a = "idle_sleep" -> {"claim"}
      [] a = "inference" -> {"retry_sleep", "submit", "error_sleep"}
      [] a = "retry_sleep" -> {"inference", "submit"}
      [] a = "submit" -> {"submit_backoff", "cooldown_sleep", "claim"}
      [] a = "submit_backoff" -> {"submit"}
      [] a = "cooldown_sleep" -> {"claim"}
      [] a = "error_sleep" -> {"claim"}
      [] OTHER -> {}

LifeInit ==
    /\ task = "none"
    /\ taskId = 0
    /\ at = "none"
    /\ cancelReq = FALSE
    /\ running = FALSE
    /\ backendOpen = FALSE
    /\ apiOpen = FALSE
    /\ hpc = [h \in Handlers |-> "idle"]
    /\ awaited = [h \in Handlers |-> 0]
    /\ lastStop = NoStop

\* "task and not task.done()"
TaskLive == task \notin {"none", "done"}

\* The task handler h awaits is done.
AwaitedDone(h) == awaited[h] < taskId \/ task = "done"

\* What a returning stop_worker leaves behind; ended tells whether the task
\* it read from worker_state is done (or there was none).
StopFinds(ended) ==
    [returned |-> TRUE, ended |-> ended, running |-> running,
     backendOpen |-> backendOpen, apiOpen |-> apiOpen]

\* start_worker with no live task: asyncio.create_task(_run_worker()).
CreateTask ==
    /\ task' = "created"
    /\ taskId' = taskId + 1
    /\ cancelReq' = FALSE
    /\ at' = "none"

\* Mutant of StartRequest: start_worker creates a task whether or not the
\* one in worker_state is still live.
StartRequest_AlwaysCreates(h) ==
    /\ hpc[h] = "idle"
    /\ taskId < MaxTasks
    /\ CreateTask
    /\ UNCHANGED <<running, backendOpen, apiOpen, hpc, awaited, lastStop>>
    /\ UNCHANGED outsideLife

\* A handler (api_complete_setup, or the lifespan at startup) calls
\* start_worker; the function has no await, so it is one step.
StartRequest(h) ==
    /\ hpc[h] = "idle"
    /\ IF TaskLive
       THEN UNCHANGED <<task, taskId, cancelReq, at>>
       ELSE taskId < MaxTasks /\ CreateTask
    /\ UNCHANGED <<running, backendOpen, apiOpen, hpc, awaited, lastStop>>
    /\ UNCHANGED outsideLife

\* The lifespan at shutdown calls stop_worker: with a live task it cancels
\* and suspends in "await task", otherwise it returns at once.
StopRequest(h) ==
    /\ hpc[h] = "idle"
    /\ IF TaskLive
       THEN /\ cancelReq' = TRUE
            /\ hpc' = [hpc EXCEPT ![h] = "stop_wait"]
            /\ awaited' = [awaited EXCEPT ![h] = taskId]
            /\ UNCHANGED lastStop
       ELSE /\ lastStop' = StopFinds(~TaskLive)
            /\ UNCHANGED <<cancelReq, hpc, awaited>>
    /\ UNCHANGED <<task, taskId, at, running, backendOpen, apiOpen>>
    /\ UNCHANGED outsideLife

\* restart_worker: stop_worker as above, then start_worker in the same step
\* when stop_worker returned at once.
RestartRequest(h) ==
    /\ hpc[h] = "idle"
    /\ IF TaskLive
       THEN /\ cancelReq' = TRUE
            /\ hpc' = [hpc EXCEPT ![h] = "restart_wait"]
            /\ awaited' = [awaited EXCEPT ![h] = taskId]
            /\ UNCHANGED <<lastStop, task, taskId, at>>
       ELSE /\ taskId < MaxTasks
            /\ lastStop' = StopFinds(~TaskLive)
            /\ CreateTask
            /\ UNCHANGED <<hpc, awaited>>
    /\ UNCHANGED <<running, backendOpen, apiOpen>>
    /\ UNCHANGED outsideLife

\* The awaited task is done: "await task" ends (a CancelledError it raises is
\* passed over), stop_worker returns, and restart_worker goes on to
\* start_worker without another await.
StopReturns(h) ==
    /\ hpc[h] \in {"stop_wait", "restart_wait"}
    /\ AwaitedDone(h)
    /\ lastStop' = StopFinds(AwaitedDone(h))
    /\ hpc' = [hpc EXCEPT ![h] = "idle"]
    /\ IF hpc[h] = "restart_wait" /\ ~TaskLive
       THEN taskId < MaxTasks /\ CreateTask
       ELSE UNCHANGED <<task, taskId, cancelReq, at>>
    /\ UNCHANGED <<running, backendOpen, apiOpen, awaited>>
    /\ UNCHANGED outsideLife

\* The first step of the task: _run_worker builds the TextWorker (which opens
\* both clients), sets the flags and suspends in worker.run().  The event
\* loop runs its ready callbacks in order, and the wake-up of a handler whose
\* awaited task is done was queued before this task was created.
TaskStart ==
    /\ task = "created"
    /\ ~cancelReq
    /\ \A h \in Handlers : hpc[h] = "idle" \/ ~AwaitedDone(h)
    /\ task' = "run"
    /\ at' = "claim"
    /\ running' = TRUE
    /\ backendOpen' = TRUE
    /\ apiOpen' = TRUE
    /\ UNCHANGED <<taskId, cancelReq, hpc, awaited, lastStop>>
    /\ UNCHANGED outsideLife

\* A task cancelled before its first step never runs the body of _run_worker.
TaskCancelledUnstarted ==
    /\ task = "created"
    /\ cancelReq
    /\ task' = "done"
    /\ cancelReq' = FALSE
    /\ UNCHANGED <<taskId, at, running, backendOpen, apiOpen, hpc, awaited, lastStop>>
    /\ UNCHANGED outsideLife

\* The pipeline moves from one await to the next.
TaskStep ==
    /\ task = "run"
    /\ ~cancelReq
    /\ at' \in NextAwait(at)
    /\ UNCHANGED <<task, taskId, cancelReq, running, backendOpen, apiOpen, hpc,
                   awaited, lastStop>>
    /\ UNCHANGED outsideLife

\* worker.cleanup() from its start: "await self.backend.aclose()", then
\* "await self.api.close()".  Closing a client suspends the task or not,
\* depending on the connections it holds, so cleanup either stops in one of
\* the two awaits or runs to its end.
CleanupFrom(stage) ==
    \/ /\ stage = "close_backend"
       /\ task' = "close_backend"
       /\ UNCHANGED <<backendOpen, apiOpen>>
    \/ /\ task' = "close_api"
       /\ backendOpen' = FALSE
       /\ UNCHANGED apiOpen
    \/ /\ task' = "done"
       /\ backendOpen' = FALSE
       /\ apiOpen' = FALSE

\* CancelledError is thrown into the await of worker.run(): no except clause
\* of the pipeline catches it, _run_worker logs it, and the finally block
\* clears the running flag and enters worker.cleanup().
TaskCancelled ==
    /\ task = "run"
    /\ cancelReq
    /\ cancelReq' = FALSE
    /\ running' = FALSE
    /\ at' = "none"
    /\ CleanupFrom("close_backend")
    /\ UNCHANGED <<taskId, hpc, awaited, lastStop>>
    /\ UNCHANGED outsideLife

\* The close the task is suspended in completes and cleanup goes on.
CleanupStep ==
    /\ task \in {"close_backend", "close_api"}
    /\ ~cancelReq
    /\ IF task = "close_backend"
       THEN \/ /\ task' = "close_api"
               /\ backendOpen' = FALSE
               /\ UNCHANGED apiOpen
            \/ /\ task' = "done"
               /\ backendOpen' = FALSE
               /\ apiOpen' = FALSE
       ELSE /\ task' = "done"
            /\ apiOpen' = FALSE
            /\ UNCHANGED backendOpen
    /\ UNCHANGED <<taskId, at, cancelReq, running, hpc, awaited, lastStop>>
    /\ UNCHANGED outsideLife

\* A second cancel() reaches the task while it is suspended inside
\* worker.cleanup(): CancelledError is thrown into that await and leaves the
\* finally block, so the rest of cleanup does not run.  Whether the client
\* whose close was interrupted ends up closed is not determined.
TaskCancelledInCleanup ==
    /\ task \in {"close_backend", "close_api"}
    /\ cancelReq
    /\ cancelReq' = FALSE
    /\ task' = "done"
    /\ IF task = "close_backend"
       THEN backendOpen' \in BOOLEAN /\ UNCHANGED apiOpen
       ELSE apiOpen' \in BOOLEAN /\ UNCHANGED backendOpen
    /\ UNCHANGED <<taskId, at, running, hpc, awaited, lastStop>>
    /\ UNCHANGED outsideLife

LifeNext ==
    \/ \E h \in Handlers : StartRequest(h)
    \/ \E h \in Handlers : StopRequest(h)
    \/ \E h \in Handlers : RestartRequest(h)
    \/ \E h \in Handlers : StopReturns(h)
    \/ TaskStart
    \/ TaskCancelledUnstarted
    \/ TaskStep
    \/ TaskCancelled
    \/ CleanupStep
    \/ TaskCancelledInCleanup

\* ------------------------------------------------- detect_backends (scan)

\* KNOWN_ENGINES: name, default port and the engine id of its probes.
KNOWN_ENGINES ==
    << [name |-> "Ollama",    default_port |-> 11434, engine |-> "ollama"],
       [name |-> "vLLM",      default_port |-> 8000,  engine |-> "vllm"],
       [name |-> "LM Studio", default_port |-> 1234,  engine |-> "lmstudio"],
       [name |-> "SGLang",    default_port |-> 30000, engine |-> "sglang"],
       [name |-> "LMDeploy",  default_port |-> 23333, engine |-> "lmdeploy"],
       [name |-> "TGI",       default_port |-> 8080,  engine |-> "tgi"],
       [name |-> "KoboldCpp", default_port |-> 5001,  engine |-> "koboldcpp"],
       [name |-> "TabbyAPI",  default_port |-> 5000,  engine |-> "tabbyapi"] >>

Engines == 1..Len(KNOWN_ENGINES)

NoBackend == [engine |-> "none"]

\* A DetectedBackend; port stands for its url http://127.0.0.1:<port>.
Descriptor(engine, name, port) == [engine |-> engine, name |-> name, port |-> port]

\* What _probe_one_engine can return as the backend for engine definition e:
\* None, or a descriptor; on port 8000 the descriptor is one of those
\* _identify_port_8000 builds.
ProbeOutcomes(e) ==
    LET def == KNOWN_ENGINES[e]
    IN  {NoBackend} \cup
        IF def.default_port = 8000
        THEN {Descriptor("vllm", "vLLM", 8000), Descriptor("sglang", "SGLang", 8000),
              Descriptor("openai-compat", "OpenAI-compatible", 8000)}
        ELSE {Descriptor(def.engine, def.name, def.default_port)}

\* Mutant of Collect: the probes are deduplicated by host, and every probe
\* goes to 127.0.0.1.
Collect_DedupByHost(port, backend, bks, seen) ==
    IF seen # {}
    THEN [backends |-> bks, seen |-> seen]
    ELSE IF backend # NoBackend
         THEN [backends |-> Append(bks, backend), seen |-> seen \cup {port}]
         ELSE [backends |-> bks, seen |-> seen]

\* The body of the as_completed loop for one future's result (port, backend).
Collect(port, backend, bks, seen) ==
    IF port \in seen
    THEN [backends |-> bks, seen |-> seen]
    ELSE IF backend # NoBackend
         THEN [backends |-> Append(bks, backend), seen |-> seen \cup {port}]
         ELSE [backends |-> bks, seen |-> seen]

ScanInit ==
    /\ fut = [e \in Engines |-> "pending"]
    /\ backends = <<>>
    /\ seen_ports = {}
    /\ scanDone = FALSE

\* The probe of engine e completes, in a pool thread, and as_completed hands
\* its future to the loop in the calling thread, which is the only code that
\* touches the result; the futures arrive in the order the probes complete.
ProbeCompletes(e) ==
    /\ ~scanDone
    /\ fut[e] = "pending"
    /\ \E b \in ProbeOutcomes(e) :
          /\ b # NoBackend => Cardinality({x \in Engines : fut[x] = "found"}) < MaxFound
          /\ fut' = [fut EXCEPT ![e] = IF b = NoBackend THEN "none" ELSE "found"]
          /\ LET r == Collect(KNOWN_ENGINES[e].default_port, b, backends, seen_ports)
             IN  /\ backends' = r.backends
                 /\ seen_ports' = r.seen
    /\ UNCHANGED scanDone
    /\ UNCHANGED outsideScan

\* Every future was handed over: the executor is shut down, result returned.
ScanReturns ==
    /\ ~scanDone
    /\ \A e \in Engines : fut[e] # "pending"
    /\ scanDone' = TRUE
    /\ UNCHANGED <<fut, backends, seen_ports>>
    /\ UNCHANGED outsideScan

ScanNext ==
    \/ \E e \in Engines : ProbeCompletes(e)
    \/ ScanReturns

\* ------------------------------------------------------ probes of one URL

\* What one GET can end in: an exception of the client (status 0) or a
\* response: its status and, for a 200, whether the body parses as a JSON
\* object and which fields that object has.
NoResponse == [status |-> 0, json |-> FALSE, fields |-> {}]
Response(status) == [status |-> status, json |-> FALSE, fields |-> {}]
JsonBody(fields) == [status |-> 200, json |-> TRUE, fields |-> fields]

\* The replies to a GET of an endpoint whose identifying field is f.
RepliesFor(f) ==
    {NoResponse, Response(401), Response(404), Response(200),
     JsonBody({}), JsonBody({f}), JsonBody({"object"})}

\* _probe_url: the parsed body of a 200, else None.
NoData == [some |-> FALSE, fields |-> {}]
ProbeUrl(reply) ==
    IF reply.status = 200 /\ reply.json
    THEN [some |-> TRUE, fields |-> reply.fields]
    ELSE NoData

\* "data and f in data": the body is there, is not empty and has the field.
HasField(data, f) == data.some /\ data.fields # {} /\ f \in data.fields

\* "if data": the body is there and is not empty.
Truthy(data) == data.some /\ data.fields # {}

\* The Server header the second GET of /v1/models shows; "error" when that
\* GET raises.
ServerHeaders == {"vllm", "uvicorn", "", "error"}

\* _identify_engine_from_headers
EngineHint(server) == IF server = "vllm" THEN "vllm" ELSE "none"

\* Mutant of Identify8000: the generic probe comes first.
Identify8000_GenericFirst(version, info, models, server) ==
    IF Truthy(ProbeUrl(models))
    THEN [backend |-> IF EngineHint(server) # "none"
                      THEN Descriptor("vllm", "VLLM", 8000)
                      ELSE Descriptor("openai-compat", "OpenAI-compatible", 8000),
          gets |-> <<"/v1/models", "/v1/models">>]
    ELSE IF HasField(ProbeUrl(version), "version")
    THEN [backend |-> Descriptor("vllm", "vLLM", 8000),
          gets |-> <<"/v1/models", "/version", "/v1/models">>]
    ELSE IF HasField(ProbeUrl(info), "model_path")
    THEN [backend |-> Descriptor("sglang", "SGLang", 8000),
          gets |-> <<"/v1/models", "/version", "/get_model_info">>]
    ELSE [backend |-> NoBackend,
          gets |-> <<"/v1/models", "/version", "/get_model_info">>]

\* _identify_port_8000, given the replies to /version, /get_model_info and
\* /v1/models and the Server header: the backend it returns and the paths it
\* requested, in order.
Identify8000(version, info, models, server) ==
    IF HasField(ProbeUrl(version), "version")
    THEN [backend |-> Descriptor("vllm", "vLLM", 8000),
          gets |-> <<"/version", "/v1/models">>]
    ELSE IF HasField(ProbeUrl(info), "model_path")
    THEN [backend |-> Descriptor("sglang", "SGLang", 8000),
          gets |-> <<"/version", "/get_model_info">>]
    ELSE IF Truthy(ProbeUrl(models))
    THEN [backend |-> IF EngineHint(server) # "none"
                      THEN Descriptor("vllm", "VLLM", 8000)
                      ELSE Descriptor("openai-compat", "OpenAI-compatible", 8000),
          gets |-> <<"/version", "/get_model_info", "/v1/models", "/v1/models">>]
    ELSE [backend |-> NoBackend,
          gets |-> <<"/version", "/get_model_info", "/v1/models">>]

NotCalled == [done |-> FALSE]

Port8000Init == p8 = NotCalled

\* One call of _identify_port_8000 against a server on port 8000.
IdentifyPort8000 ==
    /\ ~p8.done
    /\ \E version \in RepliesFor("version"), info \in RepliesFor("model_path"),
          models \in RepliesFor("data"), server \in ServerHeaders :
          p8' = [done |-> TRUE,
                 in |-> [version |-> version, info |-> info, models |-> models,
                         server |-> server],
                 out |-> Identify8000(version, info, models, server)]
    /\ UNCHANGED outsidePort8000

\* The replies check_backend_url may get to its GETs, by endpoint.
EngineReplies(f) == {NoResponse, Response(401), Response(404), JsonBody({}), JsonBody({f})}
FewReplies(f) == {NoResponse, Response(401), JsonBody({f})}
RootReplies == {NoResponse, Response(200), Response(401), Response(404), Response(500)}

\* A 200 whose body parses and has field f.
Matches(reply, f) == reply.status = 200 /\ reply.json /\ f \in reply.fields

Info(reachable, engine, auth) ==
    [reachable |-> reachable, engine |-> engine, auth_required |-> auth]

\* check_backend_url, given the reply to each of its GETs: the reachable,
\* engine (None is "none") and auth_required entries of the info it returns.
\* The /version branch sets reachable and engine and goes on; the branches
\* for /get_model_info, /info and /api/v1/model run only while reachable is
\* false and return at once; /v1/models is always requested.
CheckUrl(tags, version, info, tgi, kobold, models, root) ==
    IF tags.status = 200 /\ tags.json
    THEN Info(TRUE, "ollama", FALSE)
    ELSE LET vllm == Matches(version, "version")
             reached == vllm
             engine == IF vllm THEN "vllm" ELSE "none"
         IN  IF ~reached /\ Matches(info, "model_path")
             THEN Info(TRUE, "sglang", FALSE)
             ELSE IF ~reached /\ Matches(tgi, "model_id")
             THEN Info(TRUE, "tgi", FALSE)
             ELSE IF ~reached /\ Matches(kobold, "result")
             THEN Info(TRUE, "koboldcpp", FALSE)
             ELSE IF models.status = 200 /\ models.json
             THEN Info(TRUE, IF engine # "none" THEN engine ELSE "openai-compat", FALSE)
             ELSE IF models.status \in {401, 403}
             THEN Info(reached, engine, TRUE)
             ELSE IF reached
             THEN Info(reached, engine, FALSE)
             ELSE IF root.status \in {401, 403}
             THEN Info(FALSE, "none", TRUE)
             ELSE IF root.status > 0 /\ root.status < 500
             THEN Info(TRUE, "unknown", FALSE)
             ELSE Info(FALSE, "none", FALSE)

CheckUrlInit == cu = NotCalled

\* One call of check_backend_url against a user-supplied URL.
CheckBackendUrl ==
    /\ ~cu.done
    /\ \E tags \in EngineReplies("models"), version \in EngineReplies("version"),
          info \in EngineReplies("model_path"), tgi \in FewReplies("model_id"),
          kobold \in FewReplies("result"), models \in EngineReplies("data"),
          root \in RootReplies :
          cu' = [done |-> TRUE,
                 in |-> [tags |-> tags, version |-> version, info |-> info,
                         tgi |-> tgi, kobold |-> kobold, models |-> models,
                         root |-> root],
                 out |-> CheckUrl(tags, version, info, tgi, kobold, models, root)]
    /\ UNCHANGED outsideCheckUrl

\* ------------------------------------------------------ _transform_payload

\* Text is a sequence of one-character strings, so that str.lower() and the
\* "in" test on strings are computed character by character.  The context
\* block and the fixed phrases are single elements of such a sequence.
AIPG_CONTEXT ==
    "AI Power Grid (AIPG) is a distributed network for AI workloads with native cryptocurrency incentives. Key points:\n\n- Platform: Distributed AI compute network built on AI Horde with workflow engine\n- Tokenomics: 150M max supply\n- Network: P2P port 8865, RPC port 9788, PoW/PoUW consensus\n- Links: aipowergrid.io, explorer.aipowergrid.io, pool.aipowergrid.io\n- Social: @AIPowerGrid (Twitter), t.me/AIPowerGrid (Telegram)\n- Meet founder: https://calendly.com/half-aipowergrid/30min"

AIPG_TERMS ==
    << <<"a","i","p","g">>,
       <<"a","i"," ","p","o","w","e","r"," ","g","r","i","d">>,
       <<"a","i","p","o","w","e","r","g","r","i","d">> >>

SYSTEM_AIPG == "You are a helpful assistant with expertise in AI Power Grid (AIPG). Provide concise, accurate information about the platform."

SYSTEM_GENERIC == "You are a helpful assistant."

\* The cased letters the prompts are written in, upper case and lower case.
UpperLetters == <<"A", "I", "P", "G", "O", "W", "E", "R", "D", "X">>

LowerLetters == <<"a", "i", "p", "g", "o", "w", "e", "r", "d", "x">>

\* str.lower() without any case folding.
Lower_CaseKept(s) == s

\* str.lower(): every upper-case letter becomes its lower-case letter, every
\* other character stays.
Lower(s) ==
    [i \in 1..Len(s) |->
        IF \E k \in 1..Len(UpperLetters) : UpperLetters[k] = s[i]
        THEN LowerLetters[CHOOSE k \in 1..Len(UpperLetters) : UpperLetters[k] = s[i]]
        ELSE s[i]]

\* str.upper() on one character, used to write the prompts.
UpperChar(c) ==
    IF \E k \in 1..Len(LowerLetters) : LowerLetters[k] = c
    THEN UpperLetters[CHOOSE k \in 1..Len(LowerLetters) : LowerLetters[k] = c]
    ELSE c

\* "sub in s" on strings.
Contains(s, sub) ==
    \E k \in 0..(Len(s) - Len(sub)) : \A i \in 1..Len(sub) : s[k + i] = sub[i]

\* JSON numbers of a payload are held in hundredths; int() truncates, float()
\* keeps the value.
ToInt(x) == x \div 100

ToFloat(x) == x

DEFAULT_TEMPERATURE == 80

DEFAULT_TOP_P == 90

\* dict.get(key, default)
Get(d, key, default) == IF key \in DOMAIN d THEN d[key] ELSE default

\* The prompts: each trigger term and each near miss of one, written in
\* several letter cases, alone or inside other text.
NearMisses ==
    { <<>>,
      <<"x", "x">>,
      <<"a","i","p"," ","g">>,
      <<"a","i","p","o","w","e","r"," ","g","r","i","d">>,
      <<"a","i"," ","p","o","w","e","r","g","r","i","d">>,
      <<"a","i","p","o","w","e","r","g","r","i">> }

Cores == {AIPG_TERMS[k] : k \in 1..Len(AIPG_TERMS)} \cup NearMisses

\* Which positions of a core are written in upper case.
Casings == {"lower", "upper", "odd", "even", "first"}

Cased(core, casing) ==
    [i \in 1..Len(core) |->
        IF \/ casing = "upper"
           \/ casing = "odd" /\ i % 2 = 1
           \/ casing = "even" /\ i % 2 = 0
           \/ casing = "first" /\ i = 1
        THEN UpperChar(core[i])
        ELSE core[i]]

Prompts ==
    { before \o Cased(core, casing) \o after :
        before \in {<<>>, <<"x", " ">>}, core \in Cores, casing \in Casings,
        after \in {<<>>, <<"?">>} }

\* The optional entries of a job payload, as the sets of them that come
\* together.
PayloadOptions ==
    { <<>>,
      [max_length |-> 10000],
      [max_length |-> 8050, temperature |-> 100, top_p |-> 50],
      [stop_sequence |-> <<"###">>],
      [frequency_penalty |-> 50, presence_penalty |-> 0],
      [max_length |-> 200, stop_sequence |-> <<"###", "User:">>,
       presence_penalty |-> 150] }

JobPayloads ==
    PayloadOptions
    \cup { [prompt |-> p] @@ o : p \in Prompts, o \in PayloadOptions }

ModelNames == {"llama3", "mistral"}

\* The fields of the worker a call could read or write: the model name, the
\* failure counters and the statistics.
WorkerStates ==
    [model_name : ModelNames, consecutive_failures : {0, 3},
     jobs_completed : {0, 7}]

\* The request _transform_payload builds from the payload and the worker's
\* model name.
ChatRequest(payload, self) ==
    LET prompt == Get(payload, "prompt", <<>>)
        tokens == ToInt(Get(payload, "max_length", DEFAULT_MAX_LENGTH * 100))
        temperature == ToFloat(Get(payload, "temperature", DEFAULT_TEMPERATURE))
        top_p == ToFloat(Get(payload, "top_p", DEFAULT_TOP_P))
        has_aipg == \E k \in 1..Len(AIPG_TERMS) : Contains(Lower(prompt), AIPG_TERMS[k])
        system_prompt == IF has_aipg THEN SYSTEM_AIPG ELSE SYSTEM_GENERIC
        user_prompt == IF has_aipg
                       THEN <<AIPG_CONTEXT, "\n\n", "User Query: ">> \o prompt
                       ELSE prompt
        openai_payload ==
            [model |-> self.model_name,
             messages |-> << [role |-> "system", content |-> system_prompt],
                             [role |-> "user", content |-> user_prompt] >>,
             max_tokens |-> tokens,
             temperature |-> temperature,
             top_p |-> top_p]
        stop == IF "stop_sequence" \in DOMAIN payload
                THEN [stop |-> payload["stop_sequence"]] ELSE <<>>
        frequency == IF "frequency_penalty" \in DOMAIN payload
                     THEN [frequency_penalty |-> ToFloat(payload["frequency_penalty"])]
                     ELSE <<>>
        presence == IF "presence_penalty" \in DOMAIN payload
                    THEN [presence_penalty |-> ToFloat(payload["presence_penalty"])]
                    ELSE <<>>
    IN  openai_payload @@ stop @@ frequency @@ presence

\* _transform_payload that writes the prompt it sends back into the payload
\* it was given.
TransformPayload_WritesBack(payload, self) ==
    LET request == ChatRequest(payload, self)
    IN  [request |-> request,
         payload |-> [prompt |-> request.messages[2].content] @@ payload,
         self |-> self]

\* _transform_payload(payload) on the worker self: the request it returns,
\* and the payload and the worker as the call leaves them.  The function
\* assigns to locals and to the new dict only.
TransformPayload(payload, self) ==
    [request |-> ChatRequest(payload, self), payload |-> payload, self |-> self]

TransformInit == tf = [n |-> 0]

\* The first call: process_once hands the payload of the job it holds to
\* _transform_payload.
TransformFirst ==
    /\ tf.n = 0
    /\ \E payload \in JobPayloads, self \in WorkerStates :
          LET r == TransformPayload(payload, self)
          IN  tf' = [n |-> 1, given |-> payload, payload |-> r.payload,
                     before |-> <<self>>, self |-> r.self, out |-> <<r.request>>]
    /\ UNCHANGED outsideTransform

\* A second call with the payload the caller still holds, after the worker's
\* counters and statistics have moved; the model name is the same.
TransformAgain ==
    /\ tf.n = 1
    /\ \E self \in WorkerStates :
          /\ self.model_name = tf.self.model_name
          /\ LET r == TransformPayload(tf.payload, self)
             IN  tf' = [tf EXCEPT !.n = 2, !.payload = r.payload,
                                  !.before = Append(@, self), !.self = r.self,
                                  !.out = Append(@, r.request)]
    /\ UNCHANGED outsideTransform

TransformNext == TransformFirst \/ TransformAgain

\* -------------------------------------------------------------- WorkerStats

WINDOW_SECONDS == 3600

MIN_PERIOD_SECONDS == 10

\* last_job_time before the first job (None).
NoTime == -1

\* WorkerStats() constructed at time start.
NewStats(start) ==
    [kudos_record |-> <<>>, jobs_completed |-> 0, jobs_failed |-> 0,
     total_tokens |-> 0, total_kudos |-> 0, last_job_time |-> NoTime,
     last_job_kudos |-> 0, start_time |-> start]

\* The pruning loop that also drops an entry exactly at the cutoff.
RECURSIVE Pruned_DropsAtCutoff(_, _)
Pruned_DropsAtCutoff(record, cutoff) ==
    IF record # <<>> /\ record[1][2] <= cutoff
    THEN Pruned_DropsAtCutoff(Tail(record), cutoff)
    ELSE record

\* "while self.kudos_record and self.kudos_record[0][1] < cutoff: popleft()"
RECURSIVE Pruned(_, _)
Pruned(record, cutoff) ==
    IF record # <<>> /\ record[1][2] < cutoff
    THEN Pruned(Tail(record), cutoff)
    ELSE record

\* sum(k for k, _ in self.kudos_record)
RECURSIVE SumKudos(_)
SumKudos(record) ==
    IF record = <<>> THEN 0 ELSE record[1][1] + SumKudos(Tail(record))

\* record_job that assigns the reward to total_kudos.
RecordJob_TotalAssigned(w, kudos, tokens, now) ==
    [w EXCEPT !.kudos_record = Pruned(Append(@, <<kudos, now>>), now - WINDOW_SECONDS),
              !.jobs_completed = @ + 1,
              !.total_tokens = @ + tokens,
              !.total_kudos = kudos,
              !.last_job_time = now,
              !.last_job_kudos = kudos]

\* record_job that keeps total_kudos as the sum over the rolling log.
RecordJob_TotalOfWindow(w, kudos, tokens, now) ==
    LET log == Pruned(Append(w.kudos_record, <<kudos, now>>), now - WINDOW_SECONDS)
    IN  [w EXCEPT !.kudos_record = log,
                  !.jobs_completed = @ + 1,
                  !.total_tokens = @ + tokens,
                  !.total_kudos = SumKudos(log),
                  !.last_job_time = now,
                  !.last_job_kudos = kudos]

\* WorkerStats.record_job(kudos, tokens) when time.time() returns now.
RecordJob(w, kudos, tokens, now) ==
    [w EXCEPT !.kudos_record = Pruned(Append(@, <<kudos, now>>), now - WINDOW_SECONDS),
              !.jobs_completed = @ + 1,
              !.total_tokens = @ + tokens,
              !.total_kudos = @ + kudos,
              !.last_job_time = now,
              !.last_job_kudos = kudos]

\* Mutant of RecordFailure: the failure also clears the marker of the last
\* job's reward.
RecordFailure_ClearsLastReward(w) ==
    [w EXCEPT !.jobs_failed = @ + 1, !.last_job_kudos = 0]

\* WorkerStats.record_failure()
RecordFailure(w) == [w EXCEPT !.jobs_failed = @ + 1]

\* A rate as an exact fraction; the rate 0 the properties return early.
Rate(num, den) == [num |-> num, den |-> den]

Zero == Rate(0, 1)

\* kudos_per_hour that takes one entry as enough.
KudosPerHour_OneEntry(w, now) ==
    IF Len(w.kudos_record) < 1
    THEN Zero
    ELSE LET period == now - w.kudos_record[1][2]
         IN  IF period < MIN_PERIOD_SECONDS
             THEN Zero
             ELSE Rate(SumKudos(w.kudos_record) * 3600, period)

\* WorkerStats.kudos_per_hour when time.time() returns now.
KudosPerHour(w, now) ==
    IF Len(w.kudos_record) < 2
    THEN Zero
    ELSE LET period == now - w.kudos_record[1][2]
         IN  IF period < MIN_PERIOD_SECONDS
             THEN Zero
             ELSE Rate(SumKudos(w.kudos_record) * 3600, period)

\* WorkerStats.jobs_per_hour when time.time() returns now.
JobsPerHour(w, now) ==
    IF Len(w.kudos_record) < 2
    THEN Zero
    ELSE LET period == now - w.kudos_record[1][2]
         IN  IF period < MIN_PERIOD_SECONDS
             THEN Zero
             ELSE Rate(Len(w.kudos_record) * 3600, period)

\* What record_job is called with: the reward of the submit answer and the
\* tokens of the job.
CompletedJobs == {[kudos |-> 0, tokens |-> 0], [kudos |-> 10, tokens |-> 80]}

\* Seconds between two calls on the first instance, and on the second one.
\* time.time() is taken not to step back between two calls.
Advances == {0, 10, WINDOW_SECONDS, WINDOW_SECONDS + 1}

ReplayAdvances == {0, WINDOW_SECONDS + 1}

\* Seconds between the latest call and a read of the rates.
ReadWaits == {0, 9, 10}

NoRead == [read |-> FALSE]

\* No WorkerStats instance yet, and whether w is one.
NoStats == [start_time |-> NoTime]

Constructed(w) == w # NoStats

StatsInit ==
    /\ calls = 0
    /\ clock = 0
    /\ ws = NoStats
    /\ history = <<>>
    /\ rclock = 500
    /\ replay = NoStats
    /\ rates = NoRead
    /\ lastCall = "none"

\* WorkerStats() for both instances, each at its own time.
ConstructStats ==
    /\ ~Constructed(ws)
    /\ ws' = NewStats(clock)
    /\ replay' = NewStats(rclock)
    /\ UNCHANGED <<calls, clock, history, rclock, rates, lastCall, outsideStats>>

\* record_job on both instances: the same reward and tokens, each at its
\* own time.
RecordCompletion ==
    /\ Constructed(ws)
    /\ calls < MaxCalls
    /\ \E j \in CompletedJobs, d \in Advances, e \in ReplayAdvances :
          /\ clock' = clock + d
          /\ ws' = RecordJob(ws, j.kudos, j.tokens, clock + d)
          /\ history' = Append(history, <<j.kudos, clock + d, j.tokens>>)
          /\ rclock' = rclock + e
          /\ replay' = RecordJob(replay, j.kudos, j.tokens, rclock + e)
    /\ calls' = calls + 1
    /\ rates' = NoRead
    /\ lastCall' = "record_job"
    /\ UNCHANGED outsideStats

\* record_failure on both instances.
RecordFailureCall ==
    /\ Constructed(ws)
    /\ calls < MaxCalls
    /\ ws' = RecordFailure(ws)
    /\ replay' = RecordFailure(replay)
    /\ calls' = calls + 1
    /\ rates' = NoRead
    /\ lastCall' = "record_failure"
    /\ UNCHANGED <<clock, history, rclock, outsideStats>>

\* kudos_per_hour and jobs_per_hour read on the first instance, some seconds
\* after the latest call.  A read changes nothing in the instance.
ReadRates ==
    /\ Constructed(ws)
    /\ ~rates.read
    /\ \E wait \in ReadWaits :
          rates' = [read |-> TRUE, now |-> clock + wait,
                    kudos_per_hour |-> KudosPerHour(ws, clock + wait),
                    jobs_per_hour |-> JobsPerHour(ws, clock + wait)]
    /\ UNCHANGED <<calls, clock, ws, history, rclock, replay, lastCall, outsideStats>>

StatsNext == ConstructStats \/ RecordCompletion \/ RecordFailureCall \/ ReadRates

\* ---------------------------------------------------------------- find_user

\* What client.get raises when the request gets no response.
RequestErrors == TransientErrors \cup {"ConnectTimeout", "RemoteProtocolError"}

\* What the GET of /v2/find_user ends in: an exception of the request, or a
\* response with a status and a body that is a JSON object or is not JSON.
FindUserAnswers ==
    {[exc |-> e, status |-> "", body |-> ""] : e \in RequestErrors}
    \cup {[exc |-> "none", status |-> st, body |-> b] :
            st \in {"200"} \cup Other2xx \cup ErrorStatuses,
            b \in {"object", "unparsable"}}

\* The try block of find_user: the exception it raises ("" if none) and the
\* value it returns.
FindUserTry(answer) ==
    IF answer.exc # "none"
    THEN [raised |-> answer.exc, value |-> ""]
    ELSE IF answer.status \in ErrorStatuses
    THEN [raised |-> "HTTPStatusError", value |-> ""]
    ELSE IF answer.body = "unparsable"
    THEN [raised |-> "JSONDecodeError", value |-> ""]
    ELSE [raised |-> "", value |-> answer.body]

\* An except clause that names httpx.HTTPError only.
FindUserCatches_HttpErrorsOnly(exc) == exc \in RequestErrors \cup {"HTTPStatusError"}

\* "except Exception" of find_user.
FindUserCatches(exc) == exc \notin BaseExceptions

\* find_user(): the exception it leaves with ("" if it returns) and the value
\* it returns (None is "None").
FindUser(answer) ==
    LET try == FindUserTry(answer)
    IN  IF try.raised = ""
        THEN try
        ELSE IF FindUserCatches(try.raised)
        THEN [raised |-> "", value |-> "None"]
        ELSE try

FindUserInit == fu = <<>>

\* One call of find_user.
FindUserCall ==
    /\ Len(fu) < MaxLookups
    /\ \E answer \in FindUserAnswers :
          fu' = Append(fu, [answer |-> answer, result |-> FindUser(answer)])
    /\ UNCHANGED outsideFindUser

\* ------------------------------------------------------ _probe_single_engine

\* The probes of each entry of KNOWN_ENGINES, in their listed order; an
\* id_field of None is "".
PROBES ==
    << << [path |-> "/api/tags", id_field |-> "models", engine |-> "ollama"] >>,
       << [path |-> "/version", id_field |-> "version", engine |-> "vllm"],
          [path |-> "/v1/models", id_field |-> "data", engine |-> "vllm"] >>,
       << [path |-> "/v1/models", id_field |-> "data", engine |-> "lmstudio"] >>,
       << [path |-> "/get_model_info", id_field |-> "model_path", engine |-> "sglang"],
          [path |-> "/v1/models", id_field |-> "data", engine |-> "sglang"] >>,
       << [path |-> "/v1/models", id_field |-> "data", engine |-> "lmdeploy"] >>,
       << [path |-> "/info", id_field |-> "model_id", engine |-> "tgi"] >>,
       << [path |-> "/api/v1/model", id_field |-> "result", engine |-> "koboldcpp"] >>,
       << [path |-> "/v1/model", id_field |-> "", engine |-> "tabbyapi"],
          [path |-> "/v1/models", id_field |-> "data", engine |-> "tabbyapi"] >> >>

\* engine_def.get("version_path"): only Ollama has one; None is "".
VersionPath(e) == IF KNOWN_ENGINES[e].name = "Ollama" THEN "/api/version" ELSE ""

\* The engine definitions _probe_one_engine hands to _probe_single_engine:
\* those whose default port is not 8000.
SingleProbed == {e \in Engines : KNOWN_ENGINES[e].default_port # 8000}

\* _probe_single_engine(client, engine_def) is ProbeFrom(e, replies, 1):
\* the for loop of _probe_single_engine from probe i on, given the reply to
\* each probe: the backend returned and the paths requested, in order.  A
\* probe whose _probe_url gives None is passed over; the first that gives a
\* parsed body ends the loop with a backend, whatever the body holds.
RECURSIVE ProbeFrom(_, _, _)
ProbeFrom(e, replies, i) ==
    IF i > Len(PROBES[e])
    THEN [backend |-> NoBackend, gets |-> <<>>]
    ELSE LET probe == PROBES[e][i]
             data == ProbeUrl(replies[i])
         IN  IF ~data.some
             THEN LET rest == ProbeFrom(e, replies, i + 1)
                  IN  [rest EXCEPT !.gets = <<probe.path>> \o @]
             ELSE [backend |-> Descriptor(probe.engine, KNOWN_ENGINES[e].name,
                                          KNOWN_ENGINES[e].default_port),
                   gets |-> IF VersionPath(e) # ""
                            THEN <<probe.path, VersionPath(e)>>
                            ELSE <<probe.path>>]

\* The replies to the GET of a probe: those of an endpoint with the probe's
\* identifying field, or with the field "id" when the probe names none.
ProbeReplies(probe) ==
    RepliesFor(IF probe.id_field = "" THEN "id" ELSE probe.id_field)

\* One call of _probe_single_engine.
ProbeSingleEngineCall ==
    /\ ~pr.done
    /\ \E e \in SingleProbed :
          \E replies \in [1..Len(PROBES[e]) ->
                            UNION {ProbeReplies(PROBES[e][i]) : i \in 1..Len(PROBES[e])}] :
              /\ \A i \in 1..Len(PROBES[e]) : replies[i] \in ProbeReplies(PROBES[e][i])
              /\ pr' = [done |-> TRUE, engine |-> e, in |-> replies,
                        out |-> ProbeFrom(e, replies, 1)]
    /\ UNCHANGED outsideProbe

\* ------------------------- list_models_for_backend, get_model_context_length

\* A JSON value read with .get(): its type (t) and its text (s).  None is
\* what .get() gives for a missing key and for null.
NoneVal == [t |-> "none", s |-> ""]
QueryValues ==
    {NoneVal,
     [t |-> "int", s |-> "4096"], [t |-> "float", s |-> "4096.5"],
     [t |-> "str", s |-> "4096"], [t |-> "str", s |-> "unlimited"],
     [t |-> "str", s |-> "llama3:latest"]}

\* int(v): a number is truncated, a string is parsed, anything else raises
\* (ValueError for a string that is no integer, TypeError for None).
PyInt(v) ==
    IF v.t = "int" THEN [raised |-> FALSE, v |-> v]
    ELSE IF v.t = "float" /\ v.s = "4096.5"
    THEN [raised |-> FALSE, v |-> [t |-> "int", s |-> "4096"]]
    ELSE IF v.t = "str" /\ v.s = "4096"
    THEN [raised |-> FALSE, v |-> [t |-> "int", s |-> "4096"]]
    ELSE [raised |-> TRUE, v |-> v]

\* name.removesuffix(":latest"); a value that is no string has no such
\* method (AttributeError).
RemoveSuffix(v) ==
    IF v.t # "str" THEN [raised |-> TRUE, v |-> v]
    ELSE IF v.s = "llama3:latest"
    THEN [raised |-> FALSE, v |-> [t |-> "str", s |-> "llama3"]]
    ELSE [raised |-> FALSE, v |-> v]

\* The engine arguments: the engines with a branch of their own, one without
\* (vllm) and None ("").
QueryEngines == {"ollama", "koboldcpp", "tgi", "sglang", "lmstudio", "vllm", ""}

\* What the one request of a call meets: a connection failure, a timeout, a
\* status other than 200, or a 200 whose body is no JSON (notjson), a JSON
\* array (array), a bare JSON value v (bare), or the JSON object of the
\* endpoint's shape in which the value looked for is v (object).  Where the
\* shape lists models, it lists one, with key/id "m1".
QueryReplies ==
    {[kind |-> k, status |-> 0, v |-> NoneVal] : k \in {"connect", "timeout"}}
    \cup {[kind |-> "status", status |-> st, v |-> NoneVal] : st \in {404, 500}}
    \cup {[kind |-> k, status |-> 200, v |-> NoneVal] : k \in {"notjson", "array"}}
    \cup {[kind |-> k, status |-> 200, v |-> v] : k \in {"object", "bare"}, v \in QueryValues}

\* The exception the request or resp.json() raises, "" when none.
RequestError(reply) ==
    IF reply.kind = "connect" THEN "ConnectError"
    ELSE IF reply.kind = "timeout" THEN "ReadTimeout"
    ELSE IF reply.kind = "notjson" THEN "JSONDecodeError"
    ELSE ""

\* The return value of list_models_for_backend(url, engine): the list built
\* in the engine's branch, [] when the status is not 200 and when anything
\* in the try block raised.
ListModels(engine, reply) ==
    IF RequestError(reply) # "" \/ reply.status # 200 \/ reply.kind # "object"
    THEN <<>>
    ELSE IF engine = "ollama"
    THEN LET name == IF reply.v = NoneVal THEN [t |-> "str", s |-> ""] ELSE reply.v
         IN  IF RemoveSuffix(name).raised THEN <<>> ELSE <<RemoveSuffix(name).v>>
    ELSE IF reply.v # NoneVal THEN <<reply.v>> ELSE <<>>

\* The value of ctx when get_model_context_length(url, engine, model_name)
\* returns {"context_length": ctx}: what the engine's branch assigned before
\* it ended or raised, None when it assigned nothing.
ContextLength(engine, model_name, reply) ==
    IF RequestError(reply) # "" \/ reply.status # 200
    THEN NoneVal
    ELSE IF engine = "ollama" /\ model_name # ""
    THEN IF reply.kind = "object" /\ ~PyInt(reply.v).raised
         THEN PyInt(reply.v).v ELSE NoneVal
    ELSE IF engine \in {"tgi", "sglang"}
    THEN IF reply.kind = "object" THEN reply.v ELSE NoneVal
    ELSE IF engine = "koboldcpp"
    THEN IF reply.kind = "bare" /\ reply.v.t \in {"int", "float"} THEN PyInt(reply.v).v
         ELSE IF reply.kind = "object" THEN reply.v
         ELSE NoneVal
    ELSE IF engine = "lmstudio"
    THEN IF reply.kind # "object" \/ (model_name # "" /\ model_name # "m1")
         THEN NoneVal
         ELSE IF reply.v = NoneVal THEN NoneVal
         ELSE IF PyInt(reply.v).raised THEN reply.v
         ELSE PyInt(reply.v).v
    ELSE IF reply.kind # "object" \/ (model_name # "" /\ model_name # "m1")
         THEN NoneVal
         ELSE IF reply.v # NoneVal /\ ~PyInt(reply.v).raised
         THEN PyInt(reply.v).v ELSE NoneVal

\* One call of list_models_for_backend.  The function catches Exception
\* around the whole request and parsing, so only a BaseException leaves it.
ListModelsCall ==
    /\ ~mq.done
    /\ \E engine \in QueryEngines, reply \in QueryReplies :
          mq' = [done |-> TRUE, fn |-> "list_models_for_backend", engine |-> engine,
                 model_name |-> "", reply |-> reply,
                 out |-> [raised |-> RequestError(reply) \in BaseExceptions,
                          models |-> ListModels(engine, reply), ctx |-> NoneVal]]
    /\ UNCHANGED outsideQuery

\* One call of get_model_context_length, which catches Exception likewise.
ContextLengthCall ==
    /\ ~mq.done
    /\ \E engine \in QueryEngines, model_name \in {"", "m1", "m2"}, reply \in QueryReplies :
          mq' = [done |-> TRUE, fn |-> "get_model_context_length", engine |-> engine,
                 model_name |-> model_name, reply |-> reply,
                 out |-> [raised |-> RequestError(reply) \in BaseExceptions, models |-> <<>>,
                          ctx |-> ContextLength(engine, model_name, reply)]]
    /\ UNCHANGED outsideQuery

\* ------------------------------------------------------- specifications

Init ==
    /\ PipelineInit
    /\ SubmitInit
    /\ LifeInit
    /\ ScanInit
    /\ Port8000Init
    /\ CheckUrlInit
    /\ TransformInit
    /\ StatsInit
    /\ FindUserInit
    /\ pr = NotCalled
    /\ mq = NotCalled

Next ==
    \/ PopJob
    \/ PopNone
    \/ PopConnectError
    \/ PopReadTimeout
    \/ PopOtherError
    \/ InferStale
    \/ InferExhausted
    \/ InferPost
    \/ SubmitJob
    \/ FinishCycle

Spec == Init /\ [][Next]_vars

\* The event loop resumes the worker task when the await it is suspended in
\* completes: every sleep ends, every request is answered or times out.
FairSpec == Spec /\ WF_vars(Next)

\* One call of submit_result against every sequence of answers.
SubmitSpec == Init /\ [][SubmitNext]_vars

\* The worker task under every interleaving of start, stop and restart.
LifeSpec == Init /\ [][LifeNext]_vars

\* One scan under every completion order and every outcome of the probes.
ScanSpec == Init /\ [][ScanNext]_vars

\* _identify_port_8000 against every combination of replies.
Port8000Spec == Init /\ [][IdentifyPort8000]_vars

\* check_backend_url against every combination of replies.
CheckUrlSpec == Init /\ [][CheckBackendUrl]_vars

\* _transform_payload called twice on one payload, the worker's counters
\* moving between the calls.
TransformSpec == Init /\ [][TransformNext]_vars

\* Two WorkerStats instances under every sequence of record_job and
\* record_failure calls, the second instance getting each call at another
\* time, and the rates read between the calls.
StatsSpec == Init /\ [][StatsNext]_vars

\* find_user called against every answer of the queue service.
FindUserSpec == Init /\ [][FindUserCall]_vars

\* _probe_single_engine for every engine definition the scan gives it,
\* against every combination of replies.
ProbeSpec == Init /\ [][ProbeSingleEngineCall]_vars

\* list_models_for_backend and get_model_context_length for every engine
\* and every reply.
QuerySpec == Init /\ [][ListModelsCall \/ ContextLengthCall]_vars

\* ------------------------------------------------------------------ claims

\* C1: every job process_once claims gets a submit call: the cycle never lets
\* go of a claimed job (by returning or by raising) unless submit_result was
\* called with that job's id, whatever the backend did on each attempt.
C1_ClaimedJobIsSubmitted ==
    [][(job # NoJob /\ job' # job)
          => (submit_payload # <<>> /\ submit_payload[1].id = job)]_vars

\* C2: the id of every submit payload is the id of the job returned by the
\* latest claim (ids are handed out in order, so that id is claimCount), and
\* it is the job the cycle holds, on the completed, faulted and empty paths.
C2_SubmitIdIsClaimedId ==
    submit_payload # <<>>
        => /\ submit_payload[1].id = claimCount
           /\ submit_payload[1].id = job
           /\ job # NoJob

\* C2 witness: a faulted job other than the first one has been submitted.
C2_Witness ==
    /\ pc = "cooldown"
    /\ submit_payload # <<>>
    /\ faulted
    /\ claimCount >= 2

\* C3: the worker loop issues a claim (any step taken at the top of the loop
\* is a call of pop_job) only when every job claimed before has been
\* submitted, also after a cycle that raised.
C3_NoClaimWhileUnresolved ==
    [][pc = "loop" => submitCount = claimCount]_vars

\* C4 as stated: when every backend reply for a job was a 500, the loop is
\* left after exactly 5 requests, with no text and no fault.
C4_AlwaysExactlyFive ==
    (pc = "submit" /\ only500)
        => (requests = 5 /\ text = "" /\ ~faulted)

\* C4 amended: when every backend reply for a job was a 500, the loop is left
\* after at most 5 requests, and after fewer than 5 only when the elapsed time
\* exceeded the stale budget max_tokens / 2 + 10 s before an attempt; the job
\* is then submitted with empty generation and no state field.
C4_AlwaysFiveUnlessStale ==
    (pc \in {"submit", "cooldown"} /\ only500)
        => /\ text = "" /\ ~faulted
           /\ \/ requests = 5
              \/ requests < 5 /\ 2 * elapsed > max_tokens + 20
           /\ pc = "cooldown"
                => submit_payload = <<[id |-> job, generation |-> "", seed |-> 0]>>

\* C4 witness: a job answered 500 five times, within its budget, was submitted.
C4_Witness ==
    /\ pc = "cooldown"
    /\ only500
    /\ requests = 5
    /\ max_tokens = 100
    /\ 2 * elapsed <= max_tokens + 20

\* C5: at most 5 backend requests are dispatched for a job, and while the
\* retry loop is running every request so far consumed one attempt (each ended
\* in a transient outcome, or the loop would have been left).
C5_AtMostFiveRequests ==
    /\ requests <= 5
    /\ pc = "infer" => retries = requests
    /\ retries <= requests

\* C5 witness: four transient outcomes, then a fifth request that succeeded.
C5_Witness ==
    /\ pc = "submit"
    /\ requests = 5
    /\ retries = 4
    /\ text = "Hi there"

\* C6: the budget for max_tokens = 100 is 60 s; once the elapsed time exceeds
\* max_tokens / 2 + 10 s the next step of the retry loop dispatches no request
\* and goes to the submission with the text unchanged, and the submission
\* sends that text for that job.
C6_StaleAbandonment ==
    /\ stale_timeout_x2(100) = 2 * 60
    /\ [][/\ (pc = "infer" /\ 2 * elapsed > max_tokens + 20)
               => (requests' = requests /\ pc' = "submit" /\ text' = text
                   /\ job' = job)
          /\ pc = "submit"
               => /\ pc' = "cooldown"
                  /\ requests' = requests
                  /\ Len(submit_payload') = 1
                  /\ submit_payload'[1].id = job
                  /\ submit_payload'[1].generation = text]_vars

\* C6 witness: a job of max_tokens = 100 was abandoned as stale (the loop was
\* left after a transient outcome with attempts remaining) and submitted.
C6_Witness ==
    /\ pc = "cooldown"
    /\ max_tokens = 100
    /\ elapsed > 60
    /\ retries < 5
    /\ lastStatus \in {0, 429, 500, 503}
    /\ submit_payload # <<>>

\* C7: after a backend response with status 422, or any status other than
\* 200, 429 and >= 500, the retry loop has been left (no request is dispatched
\* outside it) and the outcome is faulted.
C7_FatalStatusStopsRetrying ==
    (lastStatus \notin {0, 200, 429} /\ lastStatus < 500)
        => (faulted /\ pc \in {"submit", "cooldown"})

\* C7 witness: a 422 on the third request ended the loop with attempts remaining.
C7_Witness ==
    /\ pc = "submit"
    /\ lastStatus = 422
    /\ retries = 2
    /\ requests = 3
    /\ faulted

\* C8: the submit payload has state = "faulted" exactly when the outcome is
\* faulted; otherwise it is exactly {id, generation, seed: 0}.
C8_FaultedStateField ==
    submit_payload # <<>>
        => LET p == submit_payload[1]
           IN  IF faulted
               THEN /\ DOMAIN p = {"id", "generation", "seed", "state"}
                    /\ p.state = "faulted"
               ELSE p = [id |-> job, generation |-> text, seed |-> 0]

\* C8 witness: a completed job was submitted as {id, "Hi there", 0}.
C8_Witness ==
    /\ pc = "cooldown"
    /\ ~faulted
    /\ lastStatus = 200
    /\ submit_payload = <<[id |-> job, generation |-> "Hi there", seed |-> 0]>>

\* C9: the step that submits sets the consecutive-failure counter to 0 and
\* records one completed job when submit_result did not raise, the text is
\* non-empty and the outcome is not faulted; in every other case it adds 1 to
\* the counter and records one failure.
C9_Classification ==
    [][pc = "submit"
          => IF submitOutcome' # "raise" /\ text # "" /\ ~faulted
             THEN /\ consecutive_failures' = 0
                  /\ stats'.jobs_completed = stats.jobs_completed + 1
                  /\ stats'.jobs_failed = stats.jobs_failed
             ELSE /\ consecutive_failures' = consecutive_failures + 1
                  /\ stats'.jobs_failed = stats.jobs_failed + 1
                  /\ stats'.jobs_completed = stats.jobs_completed]_vars

\* C9 witness: a submission that raised for a job with text, after failures.
C9_Witness ==
    /\ pc = "cooldown"
    /\ submitOutcome = "raise"
    /\ text = "Hi there"
    /\ consecutive_failures = 3
    /\ stats.jobs_failed = 3

\* C10: the cycle sleeps the 30 s cooldown exactly when 5 job cycles have
\* failed (faulted, empty text or submission raised) since the last
\* successful job or cooldown, and then sets the counter to 0; no other step
\* sleeps 30 s; a successful job sets the counter to 0 at once.
C10_Cooldown ==
    [][/\ pc = "cooldown" => ((lastSleep' = 30) <=> (failedRun = 5))
       /\ (pc = "cooldown" /\ failedRun = 5) => consecutive_failures' = 0
       /\ lastSleep' = 30 => pc = "cooldown"
       /\ (pc = "submit" /\ failedRun' = 0) => consecutive_failures' = 0
       /\ failedRun' <= 5]_vars

\* C10 witness: the fifth failure in a row was followed by the cooldown.
C10_Witness ==
    /\ pc = "loop"
    /\ lastSleep = 30
    /\ consecutive_failures = 0
    /\ stats.jobs_failed = 5

\* C11: the consecutive-failure counter is between 0 and 5 in every state, and
\* it is 5 only between the submission that made it 5 and the cooldown of the
\* same cycle: whenever process_once has returned (and while the next job is
\* processed) it is at most 4.
C11_CounterBelowThreshold ==
    /\ consecutive_failures \in 0..5
    /\ pc = "loop" => consecutive_failures <= 4
    /\ consecutive_failures = 5 => pc = "cooldown"

\* C11 witness: the fifth failure in a row, before the cooldown.
C11_Witness ==
    /\ pc = "cooldown"
    /\ consecutive_failures = 5
    /\ submitOutcome = "raise"

\* C12 as stated: every failed cycle adds 1 to the consecutive-failure
\* counter, whichever step failed: the claim (the pop slept a backoff), the
\* inference (an exception left the retry loop) or the submission.
C12_EveryFailedCycleCounts ==
    [][(\/ pc = "loop" /\ pc' = "loop" /\ lastSleep' > 0
        \/ pc = "infer" /\ pc' = "loop"
        \/ pc = "submit" /\ (faulted \/ text = "" \/ submitOutcome' = "raise"))
          => consecutive_failures' = consecutive_failures + 1]_vars

\* C12 amended: the counter counts the failed job cycles that reached the
\* submission (faulted, empty text or submission raised) since the last
\* successful job or cooldown.  A cycle that ends before the submission (a
\* failed claim, which counts in the pop-failure counter, or an exception
\* leaving the inference) leaves it unchanged, so the 30 s cooldown is forced
\* by the fifth failed submission in a row, however many failed claims lie
\* between.
C12_FailedSubmissionsCount ==
    [][/\ consecutive_failures = failedRun
       /\ (pc = "submit" /\ (faulted \/ text = "" \/ submitOutcome' = "raise"))
             => consecutive_failures' = consecutive_failures + 1
       /\ pc \in {"loop", "infer"} => consecutive_failures' = consecutive_failures
       /\ (pc = "cooldown" /\ consecutive_failures = 5) => lastSleep' = 30]_vars

\* C12 witness: three failed claims after two failed jobs left the counter at 2.
C12_Witness ==
    /\ pc = "loop"
    /\ connRun = 3
    /\ pop_failures = 3
    /\ consecutive_failures = 2
    /\ stats.jobs_failed = 2

\* C13: no exception ends the worker loop: the loop is never terminated, a
\* cycle that raised leaves the task at the top of the loop, and from there a
\* claim is issued (only a call of pop_job clears loopError).
C13_LoopSurvivesErrors ==
    /\ [](pc # "terminated")
    /\ [](loopError # "" => pc = "loop")
    /\ (loopError # "") ~> (loopError = "")

\* C13 witness: the second job's cycle raised and the task is back at the top.
C13_Witness ==
    /\ pc = "loop"
    /\ loopError = "JSONDecodeError"
    /\ claimCount = 2
    /\ submitCount = 1

\* C16 as stated: the k-th pop in a row that ends in ConnectError is followed
\* by a sleep of min(10, 2k) seconds, and k is the pop-failure counter.
C16_BackoffByConnectionRun ==
    (pc = "loop" /\ connRun > 0)
        => /\ lastSleep = Min(10, 2 * connRun)
           /\ pop_failures = connRun

\* C16 amended: a pop that ends in ConnectError adds 1 to the pop-failure
\* counter and sleeps min(10, 2k) seconds, never more than 10, where k is the
\* new value of the counter: the pops since the last one that returned that
\* ended in ConnectError or in an error other than ReadTimeout (a ReadTimeout
\* neither counts nor resets).  The cycle ends without a job, and a pop that
\* returns sets the counter to 0.
C16_BackoffByPopFailures ==
    /\ (pc = "loop" /\ connRun > 0)
          => /\ lastSleep = IF pop_failures >= 5 THEN 10 ELSE 2 * pop_failures
             /\ lastSleep \in {2, 4, 6, 8, 10}
             /\ pop_failures >= connRun
             /\ job = NoJob
    /\ pc # "loop" => pop_failures = 0

\* C16 witness: a ConnectError after four other pop errors slept 10 s.
C16_Witness ==
    /\ pc = "loop"
    /\ connRun = 1
    /\ pop_failures = 5
    /\ lastSleep = 10

\* C14: one call of submit_result makes at most 3 POSTs; every POST but the
\* last ended in a connection or timeout failure and was followed by a
\* backoff of 3 s (after the first) or 6 s (after the second); a third such
\* failure is raised with no further sleep.
C14_RetryOnlyAfterTransient ==
    /\ Len(sAnswers) <= 3
    /\ \A i \in 1..(Len(sAnswers) - 1) : sAnswers[i] \in TransientErrors
    /\ sEnd # "running"
          => /\ sSleeps = [i \in 1..(Len(sAnswers) - 1) |-> 3 * i]
             /\ sEnd \in {"return", "raise"}
    /\ (Len(sAnswers) = 3 /\ sAnswers[3] \in TransientErrors)
          => (sEnd = "raise" /\ Len(sSleeps) = 2)

\* C15: a POST answered with an error status is the last POST of the call,
\* and the call raises, whichever attempt it was.
C15_ErrorStatusNotRetried ==
    \A i \in 1..Len(sAnswers) :
        sAnswers[i] \in ErrorStatuses
            => /\ i = Len(sAnswers)
               /\ sEnd = "raise"
               /\ attempt = i - 1

\* C15 witness: two timeouts, then a 500 on the third attempt, raised.
C15_Witness ==
    /\ sAnswers = <<"ConnectError", "ReadTimeout", "500">>
    /\ sSleeps = <<3, 6>>
    /\ sEnd = "raise"

\* C17: whenever stop_worker returns, the task it stopped has ended, the
\* running flag is false, and the backend client and the queue client of the
\* worker are closed, wherever the pipeline was interrupted and however the
\* stop and restart requests interleave.
C17_StopReleasesEverything ==
    lastStop.returned
        => /\ lastStop.ended
           /\ ~lastStop.running
           /\ ~lastStop.backendOpen
           /\ ~lastStop.apiOpen

C19_Port8000Order ==
    p8.done
        => LET gets == p8.out.gets
               b == p8.out.backend
           IN  /\ gets[1] = "/version"
               /\ \A i \in 1..Len(gets) :
                     /\ gets[i] = "/get_model_info" => i = 2
                     /\ gets[i] = "/v1/models" => i >= 2
               /\ Matches(p8.in.version, "version")
                     => (b = Descriptor("vllm", "vLLM", 8000) /\ Len(gets) = 2
                         /\ gets[2] = "/v1/models")
               /\ (b # NoBackend /\ b.name \in {"OpenAI-compatible", "VLLM"})
                     => /\ ~Matches(p8.in.version, "version")
                        /\ ~Matches(p8.in.info, "model_path")
                        /\ gets = <<"/version", "/get_model_info", "/v1/models",
                                     "/v1/models">>
               /\ b # NoBackend => b.engine \in {"vllm", "sglang", "openai-compat"}

\* C19 witness: all three endpoints answer with their fields, and the
\* backend is vLLM.
C19_Witness ==
    /\ p8.done
    /\ Matches(p8.in.version, "version")
    /\ Matches(p8.in.info, "model_path")
    /\ Matches(p8.in.models, "data")
    /\ p8.out.backend.engine = "vllm"

\* C20: the info check_backend_url returns is one of four exclusive kinds:
\* auth_required is never true together with reachable or with an engine, a
\* reachable result names an engine (identified or "unknown"), and when no
\* GET got a response the result is neither reachable nor auth-required.
C20_ExclusiveOutcomes ==
    cu.done
        => LET o == cu.out
           IN  /\ o.auth_required => (~o.reachable /\ o.engine = "none")
               /\ o.reachable => o.engine # "none"
               /\ ~o.reachable => o.engine = "none"
               /\ (\A k \in DOMAIN cu.in : cu.in[k].status = 0)
                     => (~o.reachable /\ ~o.auth_required)

C22_ContextOnlyOnTrigger ==
    tf.n > 0 =>
        LET prompt == IF "prompt" \in DOMAIN tf.given THEN tf.given.prompt ELSE <<>>
            system == tf.out[1].messages[1].content
            user == tf.out[1].messages[2].content
            SameLetter(a, b) ==
                \/ a = b
                \/ {a, b} \in { {"a", "A"}, {"i", "I"}, {"p", "P"}, {"g", "G"},
                                {"o", "O"}, {"w", "W"}, {"e", "E"}, {"r", "R"},
                                {"d", "D"} }
            triggered ==
                \E k \in 1..Len(AIPG_TERMS) :
                    \E at0 \in 0..(Len(prompt) - Len(AIPG_TERMS[k])) :
                        \A i \in 1..Len(AIPG_TERMS[k]) :
                            SameLetter(prompt[at0 + i], AIPG_TERMS[k][i])
        IN  IF triggered
            THEN /\ user = <<AIPG_CONTEXT, "\n\n", "User Query: ">> \o prompt
                 /\ system = SYSTEM_AIPG
            ELSE /\ user = prompt
                 /\ system = SYSTEM_GENERIC

\* A prompt with a trigger term written partly in upper case, inside other
\* text, got the context block.
C22_Witness ==
    /\ tf.n > 0
    /\ "prompt" \in DOMAIN tf.given
    /\ tf.given.prompt = <<"x", " ", "A", "i", "P", "g", "?">>
    /\ tf.out[1].messages[2].content[1] = AIPG_CONTEXT
    /\ tf.out[1].messages[1].content = SYSTEM_AIPG

\* C23: after any sequence of record_job calls the rolling log is ordered by
\* time, holds no entry more than 3600 seconds older than the timestamp
\* recorded last and holds every recorded entry that is within 3600 seconds
\* of it; kudos_per_hour and jobs_per_hour are computed from those entries
\* alone.
C23_SlidingWindow ==
    LET log == ws.kudos_record
        newest == ws.last_job_time
        given == [i \in 1..Len(history) |-> <<history[i][1], history[i][2]>>]
        InWindow(e) == newest - e[2] <= WINDOW_SECONDS
        kept == SelectSeq(given, InWindow)
    IN  history # <<>> =>
            /\ \A i, j \in 1..Len(log) : i < j => log[i][2] <= log[j][2]
            /\ \A i \in 1..Len(log) : newest - log[i][2] <= WINDOW_SECONDS
            /\ log = kept
            /\ rates.read /\ rates.jobs_per_hour # Zero =>
                  /\ rates.jobs_per_hour.num = Len(kept) * 3600
                  /\ rates.kudos_per_hour.num = SumKudos(kept) * 3600

\* Of three recorded entries the oldest was pruned, one exactly 3600 seconds
\* older than the latest was kept, and the rates were read from the two.
C23_Witness ==
    /\ Len(history) = 3
    /\ Len(ws.kudos_record) = 2
    /\ ws.last_job_time - ws.kudos_record[1][2] = WINDOW_SECONDS
    /\ rates.read
    /\ rates.jobs_per_hour = Rate(2 * 3600, rates.now - ws.kudos_record[1][2])

\* C24 as stated: the rates are non-zero only when the rolling log holds at
\* least two entries and its entries cover at least 10 seconds (newest
\* timestamp minus oldest timestamp).
C24_RatesNeedLogSpan ==
    rates.read =>
        LET log == ws.kudos_record
        IN  \/ Len(log) >= 2 /\ log[Len(log)][2] - log[1][2] >= MIN_PERIOD_SECONDS
            \/ rates.kudos_per_hour = Zero /\ rates.jobs_per_hour = Zero

\* C24, amended: the rates are computed exactly when the rolling log holds at
\* least two entries and at least 10 seconds lie between its oldest entry and
\* the time of the read; they are the sum of the rewards, and the number of
\* entries, scaled from that period to an hour.  Otherwise both are zero.
C24_RatesNeedPeriodSinceOldest ==
    rates.read =>
        LET log == ws.kudos_record
        IN  IF Len(log) >= 2 /\ rates.now - log[1][2] >= MIN_PERIOD_SECONDS
            THEN /\ rates.kudos_per_hour =
                        Rate(SumKudos(log) * 3600, rates.now - log[1][2])
                 /\ rates.jobs_per_hour =
                        Rate(Len(log) * 3600, rates.now - log[1][2])
            ELSE /\ rates.kudos_per_hour = Zero
                 /\ rates.jobs_per_hour = Zero

\* Two entries recorded at the same second were read 10 seconds later and
\* gave non-zero rates.
C24_Witness ==
    /\ rates.read
    /\ Len(ws.kudos_record) = 2
    /\ ws.kudos_record[1][2] = ws.kudos_record[2][2]
    /\ rates.now - ws.kudos_record[1][2] = MIN_PERIOD_SECONDS
    /\ rates.jobs_per_hour.num > 0
    /\ rates.kudos_per_hour.num > 0

\* C25: the cumulative totals never decrease under record_job (rewards and
\* tokens not negative) and record_failure, and pruning does not touch them:
\* they are the counts and sums over every call made, pruned entries included.
C25_TotalsNeverDecrease ==
    /\ [](Constructed(ws) =>
             /\ ws.jobs_completed = Len(history)
             /\ ws.jobs_failed = calls - Len(history)
             /\ ws.total_kudos =
                   SumKudos([i \in 1..Len(history) |-> <<history[i][1]>>])
             /\ ws.total_tokens =
                   SumKudos([i \in 1..Len(history) |-> <<history[i][3]>>]))
    /\ [][Constructed(ws) =>
             /\ ws'.jobs_completed >= ws.jobs_completed
             /\ ws'.jobs_failed >= ws.jobs_failed
             /\ ws'.total_tokens >= ws.total_tokens
             /\ ws'.total_kudos >= ws.total_kudos]_vars

\* A job with a reward was pruned from the rolling log by a later job with
\* no reward, and a failure was recorded.
C25_Witness ==
    /\ Len(history) = 2
    /\ Len(ws.kudos_record) = 1
    /\ history[1][1] > 0
    /\ history[2][1] = 0
    /\ ws.total_kudos > 0
    /\ ws.total_tokens > 0
    /\ ws.jobs_failed = 1

\* C26: two fresh instances given the same sequence of record_job and
\* record_failure calls have the same cumulative totals, whatever the times
\* of the calls on each.
C26_ReplayGivesSameTotals ==
    Constructed(ws) /\ Constructed(replay) =>
        /\ ws.jobs_completed = replay.jobs_completed
        /\ ws.jobs_failed = replay.jobs_failed
        /\ ws.total_tokens = replay.total_tokens
        /\ ws.total_kudos = replay.total_kudos

\* The same calls left the two instances with different rolling logs: one
\* has pruned an entry the other still holds.
C26_Witness ==
    /\ calls = 3
    /\ ws.jobs_failed = 1
    /\ ws.total_kudos > 0
    /\ Len(ws.kudos_record) = 2
    /\ Len(replay.kudos_record) = 1
    /\ ws.last_job_time # replay.last_job_time

\* C27: find_user never raises: when the request fails to connect or times
\* out, when the status is not 2xx and when the body cannot be parsed, it
\* returns None; otherwise it returns the parsed body.
C27_FindUserNeverRaises ==
    \A i \in 1..Len(fu) :
        LET answer == fu[i].answer
            failed == \/ answer.exc # "none"
                      \/ answer.status \notin {"200"} \cup Other2xx
                      \/ answer.body = "unparsable"
        IN  /\ fu[i].result.raised = ""
            /\ fu[i].result.value = IF failed THEN "None" ELSE "object"

\* Three calls ended in None: after a connection failure, after a 500 and
\* after a 200 whose body is not JSON.
C27_Witness ==
    /\ Len(fu) = 3
    /\ fu[1].answer.exc = "ConnectError"
    /\ fu[2].answer.status = "500"
    /\ fu[3].answer.status = "200" /\ fu[3].answer.body = "unparsable"
    /\ \A i \in 1..3 : fu[i].result = [raised |-> "", value |-> "None"]

\* C28 as stated: when the retry loop is left, no more than the stale budget
\* max_tokens / 2 + 10 seconds has passed since the loop was entered.
C28_StepWithinBudget ==
    pc \in {"submit", "cooldown"} => 2 * elapsed <= stale_timeout_x2(max_tokens)

\* C28, amended: the stale budget bounds when a request is dispatched, not
\* when the loop is left: every backend POST is dispatched no later than the
\* budget after the loop was entered, and the loop is left no later than the
\* budget plus the duration of one request and the backoff sleep after it.
C28_DispatchWithinBudget ==
    /\ [][(pc = "infer" /\ (requests' = requests + 1 \/ loopError' # ""))
             => 2 * elapsed <= stale_timeout_x2(max_tokens)]_vars
    /\ [](pc \in {"submit", "cooldown"} =>
             \E latency \in BackendLatencies, sleep \in {0, 3, 5} :
                 2 * (elapsed - latency - sleep) <= stale_timeout_x2(max_tokens))

\* A single request, dispatched at once, was answered with text after more
\* than the budget.
C28_Witness ==
    /\ pc = "submit"
    /\ requests = 1
    /\ lastStatus = 200
    /\ text # ""
    /\ 2 * elapsed > stale_timeout_x2(max_tokens)

\* C29: a 200 from the backend whose body cannot be parsed or holds no usable
\* first choice ends the retry loop with the job marked faulted, on its way
\* to being submitted with state "faulted".
C29_MalformedIsFaulted ==
    [][(pc = "infer" /\ lastParse' \in {"malformed", "no_choices"})
          => (pc' = "submit" /\ faulted' /\ job' = job)]_vars

\* C30 as stated: a claim that fails with a read timeout sleeps 2 s, one that
\* fails with any other error that is not a connection failure sleeps 5 s;
\* both end the cycle without a job and leave the pop-failure counter as it
\* was.
C30_OtherErrorsLeaveCounter ==
    [][(pc = "loop" /\ popError' \in {"ReadTimeout", "OtherError"})
          => /\ lastSleep' = IF popError' = "ReadTimeout" THEN 2 ELSE 5
             /\ pc' = "loop"
             /\ job' = NoJob
             /\ pop_failures' = pop_failures]_vars

\* C30, amended: both end the cycle without a job and touch neither the
\* consecutive-failure counter nor the statistics; the read timeout sleeps
\* 2 s and leaves the pop-failure counter as it was, any other error that is
\* not a connection failure sleeps 5 s and adds one to the pop-failure
\* counter.
C30_OtherErrorsCount ==
    [][(pc = "loop" /\ popError' \in {"ReadTimeout", "OtherError"})
          => /\ pc' = "loop"
             /\ job' = NoJob
             /\ consecutive_failures' = consecutive_failures
             /\ stats' = stats
             /\ IF popError' = "ReadTimeout"
                THEN lastSleep' = 2 /\ pop_failures' = pop_failures
                ELSE lastSleep' = 5 /\ pop_failures' = pop_failures + 1]_vars

\* A claim failed with an error that is neither a connection failure nor a
\* read timeout after the counter had already been raised.
C30_Witness ==
    /\ pc = "loop"
    /\ popError = "OtherError"
    /\ lastSleep = 5
    /\ pop_failures = 2
    /\ job = NoJob

\* C31: a cycle whose claim fails (connection failure, read timeout, other
\* error) or returns no job holds no job, dispatches no backend request,
\* calls no submit and leaves the statistics as they were.
C31_FailedClaimTouchesNothing ==
    [][(pc = "loop" /\ pc' = "loop")
          => /\ job' = NoJob
             /\ requests' = 0
             /\ submit_payload' = <<>>
             /\ submitCount' = submitCount
             /\ stats' = stats
             /\ consecutive_failures' = consecutive_failures]_vars

\* After jobs were completed and failed, a claim failed with an error.
C31_Witness ==
    /\ pc = "loop"
    /\ popError = "OtherError"
    /\ stats.jobs_completed > 0
    /\ stats.jobs_failed > 0
    /\ submitCount = 2
    /\ job = NoJob

\* C32: submit is called exactly once for every claimed job: whenever the
\* worker is between two cycles, the submit calls made equal the jobs
\* claimed.
C32_SubmitOncePerJob ==
    pc = "loop" => submitCount = claimCount

\* C35: the tokens recorded for a completed job are the tokens generated
\* for it.
C35_RecordsGeneratedTokens ==
    recordedTokens # NoTokens => recordedTokens = GeneratedTokens(text)

\* C37: a submit payload with state "faulted" has an empty generation, and a
\* payload with a non-empty generation belongs to a job whose last backend
\* response was a 200.
C37_FaultedHasNoText ==
    submit_payload # <<>> =>
        LET payload == submit_payload[1]
        IN  /\ ("state" \in DOMAIN payload /\ payload.state = "faulted")
                  => payload.generation = ""
            /\ payload.generation # "" => lastStatus = 200

\* A job was submitted as faulted after a retried 5xx and a 422.
C37_Witness ==
    /\ submit_payload # <<>>
    /\ "state" \in DOMAIN submit_payload[1]
    /\ submit_payload[1].generation = ""
    /\ lastStatus = 422
    /\ requests = 2

\* C39: every submit step adds 1 to exactly one of jobs_completed and
\* jobs_failed, and the two add up to the submit calls made.
C39_OneCountPerSubmission ==
    /\ [](stats.jobs_completed + stats.jobs_failed = submitCount)
    /\ [][submitCount' = submitCount + 1 =>
             \/ /\ stats'.jobs_completed = stats.jobs_completed + 1
                /\ stats'.jobs_failed = stats.jobs_failed
             \/ /\ stats'.jobs_completed = stats.jobs_completed
                /\ stats'.jobs_failed = stats.jobs_failed + 1]_vars

\* Three submissions were counted: one completed, one failed on its
\* outcome, one whose submit call raised.
C39_Witness ==
    /\ submitCount = 3
    /\ stats.jobs_completed = 1
    /\ stats.jobs_failed = 2
    /\ submitOutcome = "raise"
    /\ text # ""

\* C33: a probe of an engine returns a descriptor only when one of the
\* engine's endpoints answered 200 with a body that has the endpoint's
\* identifying field, the endpoints before it were requested in their listed
\* order without such an answer, and no endpoint after it was requested.
C33_DescriptorNeedsIdField ==
    pr.done =>
        LET probes == PROBES[pr.engine]
            Matching(i) ==
                /\ pr.in[i].status = 200
                /\ pr.in[i].json
                /\ probes[i].id_field # "" => probes[i].id_field \in pr.in[i].fields
            tried == SelectSeq(pr.out.gets, LAMBDA g : g # VersionPath(pr.engine))
        IN  IF \E i \in 1..Len(probes) : Matching(i)
            THEN LET first == CHOOSE i \in 1..Len(probes) :
                                 Matching(i) /\ \A k \in 1..(i - 1) : ~Matching(k)
                 IN  /\ pr.out.backend # NoBackend
                     /\ pr.out.backend.engine = probes[first].engine
                     /\ tried = [k \in 1..first |-> probes[k].path]
            ELSE /\ pr.out.backend = NoBackend
                 /\ tried = [k \in 1..Len(probes) |-> probes[k].path]

\* C36: list_models_for_backend and get_model_context_length never let an
\* exception out, and on every failure (connection failure, timeout, status
\* other than 200, body of an unexpected shape, non-numeric value) the first
\* returns the empty list and the second reports no context length.
C36_QueriesFailEmpty ==
    mq.done =>
        LET Failed ==
                \/ mq.reply.kind \in {"connect", "timeout", "status", "notjson", "array"}
                \/ /\ mq.fn = "get_model_context_length"
                   /\ mq.reply.v.t = "str"
                   /\ PyInt(mq.reply.v).raised
        IN  /\ ~mq.out.raised
            /\ Failed => /\ mq.out.models = <<>>
                         /\ mq.out.ctx = NoneVal

\* C38: every call of submit_result that has ended either returned the body
\* of a POST answered 200 or raised; none ended by returning None, whatever
\* status the queue answered with.
C38_ReturnsBodyOrRaises ==
    sEnd # "running"
        => \/ sEnd = "raise"
           \/ sEnd = "return" /\ sAnswers[Len(sAnswers)] = "200"

\* C40: a pipeline task is created only in a step that begins with no task
\* or with a finished task in worker_state, and the new task takes its
\* place; so every task but the latest has finished, and at most one is
\* alive, however start, stop, restart and setup-complete requests
\* interleave.
C40_OneTaskAlive ==
    [][taskId' # taskId
          => /\ task \in {"none", "done"}
             /\ taskId' = taskId + 1
             /\ task' = "created"]_vars

\* C40 witness: both handlers waited for the first task to end and have
\* returned, and one task, the second, has been created since.
C40_Witness ==
    /\ awaited = [h \in Handlers |-> 1]
    /\ hpc = [h \in Handlers |-> "idle"]
    /\ taskId = 2
    /\ task \notin {"none", "done"}

\* C34: a call of record_failure adds exactly 1 to jobs_failed and leaves the
\* rolling log, jobs_completed, total_tokens, total_kudos, the last-job
\* markers and the start time as they were.
C34_FailureTouchesOnlyItsCounter ==
    [][(calls' = calls + 1 /\ lastCall' = "record_failure")
          => /\ ws'.jobs_failed = ws.jobs_failed + 1
             /\ ws'.kudos_record = ws.kudos_record
             /\ ws'.jobs_completed = ws.jobs_completed
             /\ ws'.total_tokens = ws.total_tokens
             /\ ws'.total_kudos = ws.total_kudos
             /\ ws'.last_job_time = ws.last_job_time
             /\ ws'.last_job_kudos = ws.last_job_kudos
             /\ ws'.start_time = ws.start_time]_vars

\* C34 witness: a failure recorded right after two completed jobs, with both
\* still in the log and the totals and markers of the second one in place.
C34_Witness ==
    /\ lastCall = "record_failure"
    /\ calls = 3
    /\ ws.jobs_failed = 1
    /\ Len(ws.kudos_record) = 2
    /\ ws.total_tokens = 160
    /\ ws.total_kudos = 20
    /\ ws.last_job_kudos = 10

====
